---- MODULE Spec2Model ----
(***************************************************************************)
(* Verification model of the prescription OCR pipeline:                    *)
(*   - the Name Normalizer      (MedicineValidator._preprocess_name)       *)
(*   - the Recovery Parser      (GeminiService._parse_json_response)       *)
(*   - the Inventory Index      (MedicineValidator)                        *)
(*   - the Validation Pipeline  (GeminiService._validate_medicine_names)   *)
(* A text is a sequence of one-character strings.                          *)
(***************************************************************************)
EXTENDS Integers, Sequences, FiniteSets, TLC

VARIABLES
    \* the normalizer run: position, input name, first and second output
    nPc, nIn, nOut, nOut2,
    \* the recovery parser run: position, raw text, result
    pPc, pRaw, pRes,
    \* the optional libraries found at import time
    rapidfuzz_available, phonetics_available,
    \* the MedicineValidator: its database file and its fields
    db_file, match_threshold, db_loaded, medicine_db, medicine_db_original,
    \* the last direct lookup on the validator
    lookup,
    \* _validate_medicine_names: position, the detected list, the loop index,
    \* its two lists, the outcomes of validate_medicine so far, the result
    pc, medicines, idx, validated_medicines, not_in_stock, outcomes, result,
    \* _validate_with_ai: who called, the names passed, the attempt number,
    \* the configured retries, the batches passed so far, and what the last
    \* call returned
    ai_mode, ai_batch, attempt, max_retries, ai_calls, ai_return,
    \* process_image on one image: the configured flag, the reply of the
    \* external model, what json decoding made of it, the number of calls of
    \* _save_debug_response, what parse_prescription_from_image gave, the
    \* ProcessingResult and the document save_result wrote
    validate_medicine_names, api_reply, decoded, debug_saves, parse_outcome,
    processing_result, output_data,
    \* the worker threads that share one validator: for each thread the call
    \* it is in and its locals
    threads,
    \* one call of _fuzzy_match_score: its arguments, the library answers, the
    \* scores and weights collected and the value returned
    scoring,
    \* one call of _fix_json_issues: the loop position with the locals of the
    \* scan, and the text returned
    scan, fixed,
    \* the calls of model.generate_content made for one image, in order
    model_calls,
    \* the class attributes of Config and the threads inside its methods
    config,
    \* the parallel mode of the command line: the tasks and what main collects
    cli

normVars == <<nPc, nIn, nOut, nOut2>>
parseVars == <<pPc, pRaw, pRes>>
envVars == <<rapidfuzz_available, phonetics_available>>
validatorVars == <<db_file, match_threshold, db_loaded, medicine_db, medicine_db_original>>
runVars == <<pc, medicines, idx, validated_medicines, not_in_stock, outcomes, result>>
aiVars == <<ai_mode, ai_batch, attempt, max_retries, ai_calls, ai_return>>
pipeVars == <<envVars, validatorVars, lookup, runVars, aiVars>>
itemVars == <<validate_medicine_names, api_reply, decoded, debug_saves, parse_outcome,
              processing_result, output_data>>
lateVars == <<model_calls, config, cli>>
restVars == <<threads, scoring, scan, fixed, lateVars>>
vars == <<normVars, parseVars, pipeVars, itemVars, restVars>>

(***************************************************************************)
(* Bounds of the model                                                     *)
(***************************************************************************)
MaxNameLen == 4
MaxProse == 2
MaxRaw == 4
MaxDetected == 2
MaxRetries == 1
MaxItemList == 3
MaxItemText == 2
MaxScoreLen == 2

(***************************************************************************)
(* Texts                                                                   *)
(***************************************************************************)
\* All texts over alphabet A of length 0..n
Strs(A, n) == UNION {[1..k -> A] : k \in 0..n}

Max2(a, b) == IF a >= b THEN a ELSE b
Min2(a, b) == IF a <= b THEN a ELSE b

\* text[lo..hi] (1-based, inclusive), empty when hi < lo
Slice(s, lo, hi) == IF hi < lo THEN <<>> ELSE SubSeq(s, lo, hi)

\* whether pat occurs in s starting at position i
MatchAt(s, i, pat) ==
    /\ i >= 1
    /\ i + Len(pat) - 1 <= Len(s)
    /\ \A k \in 1..Len(pat) : s[i + k - 1] = pat[k]

(***************************************************************************)
(* Character classes of Python's re (str patterns) and str methods         *)
(***************************************************************************)
UpperLetters == <<"A","B","C","D","E","F","G","H","I","J","K","L","M",
                  "N","O","P","Q","R","S","T","U","V","W","X","Y","Z">>
LowerLetters == <<"a","b","c","d","e","f","g","h","i","j","k","l","m",
                  "n","o","p","q","r","s","t","u","v","w","x","y","z">>
DigitChars == {"0","1","2","3","4","5","6","7","8","9"}
SpaceChars == {" ", "\t", "\n", "\r", "\f"}
LetterChars == {UpperLetters[i] : i \in 1..26} \cup {LowerLetters[i] : i \in 1..26}

\* \w : letters, digits and the underscore
IsWord(c) == c \in LetterChars \cup DigitChars \cup {"_"}
\* \s
IsSpace(c) == c \in SpaceChars
\* \d
IsDigit(c) == c \in DigitChars

\* str.lower() on one character
LowerChar(c) ==
    IF \E i \in 1..26 : UpperLetters[i] = c
    THEN LowerLetters[CHOOSE i \in 1..26 : UpperLetters[i] = c]
    ELSE c

\* str.lower()
LowerStr(s) == [i \in 1..Len(s) |-> LowerChar(s[i])]

RECURSIVE LStrip(_)
LStrip(s) == IF s # <<>> /\ IsSpace(Head(s)) THEN LStrip(Tail(s)) ELSE s

RECURSIVE RStrip(_)
RStrip(s) ==
    IF s # <<>> /\ IsSpace(s[Len(s)]) THEN RStrip(SubSeq(s, 1, Len(s) - 1)) ELSE s

\* str.strip()
Strip(s) == RStrip(LStrip(s))

\* \b at position p: between s[p-1] and s[p], p in 1..Len(s)+1
WordBoundary(s, p) ==
    LET before == p - 1 >= 1 /\ p - 1 <= Len(s) /\ IsWord(s[p - 1])
        after  == p >= 1 /\ p <= Len(s) /\ IsWord(s[p])
    IN before # after

(***************************************************************************)
(* Name Normalizer: MedicineValidator._preprocess_name                     *)
(***************************************************************************)
\* the unit alternatives of the dosage pattern, in the pattern's order:
\* (mg|g|ml|l|%|mcg|iu|units?)
DosageUnits ==
    << <<"m","g">>, <<"g">>, <<"m","l">>, <<"l">>, <<"%">>, <<"m","c","g">>,
       <<"i","u">>, <<"u","n","i","t","s">>, <<"u","n","i","t">> >>

\* end of the maximal run of characters satisfying the class, from position i
RECURSIVE DigitRunEnd(_, _)
DigitRunEnd(s, i) ==
    IF i <= Len(s) /\ IsDigit(s[i]) THEN DigitRunEnd(s, i + 1) ELSE i

RECURSIVE SpaceRunEnd(_, _)
SpaceRunEnd(s, i) ==
    IF i <= Len(s) /\ IsSpace(s[i]) THEN SpaceRunEnd(s, i + 1) ELSE i

\* r'\b\d+\s*(mg|g|ml|l|%|mcg|iu|units?)\b' tried at position i: the position
\* after the match, or 0 when the pattern does not match there.  The digit and
\* whitespace runs are greedy; giving back a digit or a space never helps, as
\* no later part of the pattern starts with one.
DosageMatchEnd(s, i) ==
    LET d == DigitRunEnd(s, i)
        w == SpaceRunEnd(s, d)
        ok(u) == MatchAt(s, w, DosageUnits[u])
                   /\ WordBoundary(s, w + Len(DosageUnits[u]))
    IN IF WordBoundary(s, i) /\ d > i /\ \E u \in 1..Len(DosageUnits) : ok(u)
       THEN LET u == CHOOSE u \in 1..Len(DosageUnits) :
                        ok(u) /\ \A v \in 1..(u - 1) : ~ok(v)
            IN w + Len(DosageUnits[u])
       ELSE 0

\* re.sub(dosage pattern, '', s): leftmost non-overlapping matches removed
RECURSIVE StripDosageFrom(_, _)
StripDosageFrom(s, i) ==
    IF i > Len(s) THEN <<>>
    ELSE LET e == DosageMatchEnd(s, i)
         IN IF e # 0 THEN StripDosageFrom(s, e)
            ELSE <<s[i]>> \o StripDosageFrom(s, i + 1)

StripDosage(s) == StripDosageFrom(s, 1)

\* re.sub(r'[^\w\s]', ' ', s)
ReplacePunctuation(s) ==
    [i \in 1..Len(s) |-> IF IsWord(s[i]) \/ IsSpace(s[i]) THEN s[i] ELSE " "]

\* re.sub(r'\b<pat>\b', rep, s) for a literal word pat
RECURSIVE ReplaceWordFrom(_, _, _, _)
ReplaceWordFrom(s, i, pat, rep) ==
    IF i > Len(s) THEN <<>>
    ELSE IF /\ WordBoundary(s, i)
            /\ MatchAt(s, i, pat)
            /\ WordBoundary(s, i + Len(pat))
         THEN rep \o ReplaceWordFrom(s, i + Len(pat), pat, rep)
         ELSE <<s[i]>> \o ReplaceWordFrom(s, i + 1, pat, rep)

ReplaceWord(s, pat, rep) == ReplaceWordFrom(s, 1, pat, rep)

\* abbreviation_map, in insertion order: <<pattern word, replacement>>
AbbreviationMap ==
    << << <<"t","a","b">>,                     <<"t","a","b","l","e","t">> >>,
       << <<"t","a","b","s">>,                 <<"t","a","b","l","e","t">> >>,
       << <<"c","a","p","s">>,                 <<"c","a","p","s","u","l","e">> >>,
       << <<"c","a","p","s","u","l","e","s">>, <<"c","a","p","s","u","l","e">> >>,
       << <<"i","n","j">>,                     <<"i","n","j","e","c","t","i","o","n">> >>,
       << <<"s","y","r">>,                     <<"s","y","r","u","p">> >>,
       << <<"c","r","e">>,                     <<"c","r","e","a","m">> >>,
       << <<"g","e","l">>,                     <<"g","e","l">> >>,
       << <<"o","t","c">>,                     <<>> >>,
       << <<"r","x">>,                         <<>> >> >>

\* the for loop over abbreviation_map.items(), entries k..end
RECURSIVE ApplyAbbreviations(_, _)
ApplyAbbreviations(s, k) ==
    IF k > Len(AbbreviationMap) THEN s
    ELSE ApplyAbbreviations(
             ReplaceWord(s, AbbreviationMap[k][1], AbbreviationMap[k][2]), k + 1)

\* re.sub(r'\s+', ' ', s)
RECURSIVE CollapseWhitespaceFrom(_, _)
CollapseWhitespaceFrom(s, i) ==
    IF i > Len(s) THEN <<>>
    ELSE IF IsSpace(s[i])
         THEN <<" ">> \o CollapseWhitespaceFrom(s, SpaceRunEnd(s, i))
         ELSE <<s[i]>> \o CollapseWhitespaceFrom(s, i + 1)

CollapseWhitespace(s) == CollapseWhitespaceFrom(s, 1)

\* _preprocess_name
PreprocessName(name) ==
    IF name = <<>> THEN <<>>
    ELSE LET lowered     == Strip(LowerStr(name))
             noDosage    == StripDosage(lowered)
             noPunct     == ReplacePunctuation(noDosage)
             expanded    == ApplyAbbreviations(noPunct, 1)
             collapsed   == CollapseWhitespace(expanded)
         IN Strip(collapsed)

(***************************************************************************)
(* Scores are exact rationals <<numerator, denominator>> in lowest terms   *)
(* (the code computes them in floating point).                             *)
(***************************************************************************)
RECURSIVE GCD(_, _)
GCD(a, b) == IF b = 0 THEN a ELSE GCD(b, a % b)

Rat(n, d) == IF n = 0 THEN <<0, 1>> ELSE <<n \div GCD(n, d), d \div GCD(n, d)>>
RatZero == <<0, 1>>
RatOne == <<1, 1>>
RatAdd(x, y) == Rat(x[1] * y[2] + y[1] * x[2], x[2] * y[2])
RatMul(x, y) == Rat(x[1] * y[1], x[2] * y[2])
RatLess(x, y) == x[1] * y[2] < y[1] * x[2]
RatGeq(x, y) == ~RatLess(x, y)
RatMin(x, y) == IF RatLess(y, x) THEN y ELSE x

(***************************************************************************)
(* difflib.SequenceMatcher(None, a, b).ratio()                             *)
(***************************************************************************)
\* length of the common run a[i..], b[j..] inside a[..ahi-1], b[..bhi-1]
RECURSIVE CommonRun(_, _, _, _, _, _)
CommonRun(a, b, i, j, ahi, bhi) ==
    IF i < ahi /\ j < bhi /\ a[i] = b[j]
    THEN 1 + CommonRun(a, b, i + 1, j + 1, ahi, bhi)
    ELSE 0

\* find_longest_match(alo, ahi, blo, bhi) on half-open ranges: the longest
\* matching block, the earliest in a among the longest, then the earliest in b
FindLongestMatch(a, b, alo, ahi, blo, bhi) ==
    LET blocks == {<<i, j>> \in (alo..(ahi - 1)) \X (blo..(bhi - 1)) : a[i] = b[j]}
        size(p) == CommonRun(a, b, p[1], p[2], ahi, bhi)
        better(p, q) == \/ size(p) > size(q)
                        \/ size(p) = size(q) /\ p[1] < q[1]
                        \/ size(p) = size(q) /\ p[1] = q[1] /\ p[2] <= q[2]
    IN IF blocks = {} THEN <<alo, blo, 0>>
       ELSE LET best == CHOOSE p \in blocks : \A q \in blocks : better(p, q)
            IN <<best[1], best[2], size(best)>>

\* get_matching_blocks: the total size of the matching blocks
RECURSIVE MatchingSize(_, _, _, _, _, _)
MatchingSize(a, b, alo, ahi, blo, bhi) ==
    LET m == FindLongestMatch(a, b, alo, ahi, blo, bhi)
        i == m[1]
        j == m[2]
        k == m[3]
    IN IF k = 0 THEN 0
       ELSE k + (IF alo < i /\ blo < j
                 THEN MatchingSize(a, b, alo, i, blo, j) ELSE 0)
              + (IF i + k < ahi /\ j + k < bhi
                 THEN MatchingSize(a, b, i + k, ahi, j + k, bhi) ELSE 0)

\* ratio(): 2.0 * matches / (len(a) + len(b))
SequenceRatio(a, b) ==
    IF Len(a) + Len(b) = 0 THEN RatOne
    ELSE Rat(2 * MatchingSize(a, b, 1, Len(a) + 1, 1, Len(b) + 1), Len(a) + Len(b))

(***************************************************************************)
(* Fuzzy Scorer: MedicineValidator._fuzzy_match_score                      *)
(***************************************************************************)
\* base weights, in hundredths
WeightRatio == 25
WeightPartial == 20
WeightTokenSort == 20
WeightTokenSet == 15
WeightSequence == 40
WeightPhonetic == 10
WeightTokenJaccard == 10
WeightNgram == 5
WeightContains == 5
\* get_ngrams(text, n=3)
NgramSize == 3
\* min_len >= 3 in the partial phonetic match
PhoneticPrefixMin == 3

\* str.split(): the whitespace-delimited tokens, as a set
RECURSIVE TokensFrom(_, _)
TokensFrom(s, i) ==
    LET b == SpaceRunEnd(s, i)
        e == CHOOSE e \in b..(Len(s) + 1) :
                 /\ e = Len(s) + 1 \/ IsSpace(s[e])
                 /\ \A k \in b..(e - 1) : ~IsSpace(s[k])
    IN IF b > Len(s) THEN {} ELSE {SubSeq(s, b, e - 1)} \cup TokensFrom(s, e)

Tokens(s) == TokensFrom(s, 1)

\* get_ngrams
Ngrams(text) ==
    IF Len(text) < NgramSize THEN {text}
    ELSE {SubSeq(text, i, i + NgramSize - 1) : i \in 1..(Len(text) - NgramSize + 1)}

\* a in b (substring test)
Contains(a, b) == \E i \in 1..(Len(b) - Len(a) + 1) : MatchAt(b, i, a)

\* |x & y| / |x | y|
Jaccard(x, y) ==
    IF x \cup y = {} THEN RatZero
    ELSE Rat(Cardinality(x \cap y), Cardinality(x \cup y))

\* the phonetic sub-signal from the two metaphone keys
PhoneticScore(meta1, meta2) ==
    LET minLen == Min2(Len(meta1), Len(meta2))
    IN IF meta1 = meta2 THEN RatOne
       ELSE IF minLen >= PhoneticPrefixMin
               /\ SubSeq(meta1, 1, minLen) = SubSeq(meta2, 1, minLen)
            THEN Rat(1, 2)
       ELSE RatZero

\* the <<score, weight>> pairs of the signals computed for a pair of names.
\* lib holds what the optional libraries answer for this pair: the four
\* rapidfuzz ratios in percent and the metaphone keys (or an exception).
Signals(name1, name2, haveRapidfuzz, havePhonetics, lib) ==
    (IF haveRapidfuzz
     THEN << <<Rat(lib.ratio, 100), WeightRatio>>,
             <<Rat(lib.partial, 100), WeightPartial>>,
             <<Rat(lib.token_sort, 100), WeightTokenSort>>,
             <<Rat(lib.token_set, 100), WeightTokenSet>> >>
     ELSE << <<SequenceRatio(name1, name2), WeightSequence>> >>)
    \o (IF havePhonetics /\ ~lib.meta_raises /\ lib.meta1 # <<>> /\ lib.meta2 # <<>>
        THEN << <<PhoneticScore(lib.meta1, lib.meta2), WeightPhonetic>> >>
        ELSE <<>>)
    \o (IF Tokens(name1) # {} /\ Tokens(name2) # {}
        THEN << <<Jaccard(Tokens(name1), Tokens(name2)), WeightTokenJaccard>> >>
        ELSE <<>>)
    \o << <<Jaccard(Ngrams(name1), Ngrams(name2)), WeightNgram>> >>
    \o (IF Contains(name1, name2) \/ Contains(name2, name1)
        THEN << <<Rat(Min2(Len(name1), Len(name2)), Max2(Len(name1), Len(name2))),
                  WeightContains>> >>
        ELSE <<>>)

RECURSIVE TotalWeight(_)
TotalWeight(sig) ==
    IF sig = <<>> THEN 0 ELSE Head(sig)[2] + TotalWeight(Tail(sig))

\* sum(score * weight / total_weight)
RECURSIVE WeightedSum(_, _)
WeightedSum(sig, total) ==
    IF sig = <<>> THEN RatZero
    ELSE RatAdd(RatMul(Head(sig)[1], Rat(Head(sig)[2], total)),
                WeightedSum(Tail(sig), total))

\* a score that uses the base weights as they are, without dividing them by
\* their sum
NormalizedScore_BaseWeights(sig) == RatMin(WeightedSum(sig, 100), RatOne)

\* the weights are normalised to sum to 1.0 and the result is capped at 1.0
NormalizedScore(sig) == RatMin(WeightedSum(sig, TotalWeight(sig)), RatOne)

\* what a call of _fuzzy_match_score leaves: the <<score, weight>> pairs it
\* collected and the value it returns
Scored(sig, value) == [signals |-> sig, score |-> value]

\* the scores list collected and normalised
ScoredFrom(sig) == Scored(sig, NormalizedScore(sig))

\* a scorer without the test for equal names
ScoreReturn_NoShortCut(name1, name2, haveRapidfuzz, havePhonetics, lib) ==
    IF name1 = <<>> \/ name2 = <<>> THEN Scored(<<>>, RatZero)
    ELSE ScoredFrom(Signals(name1, name2, haveRapidfuzz, havePhonetics, lib))

\* _fuzzy_match_score with its two early returns
ScoreReturn(name1, name2, haveRapidfuzz, havePhonetics, lib) ==
    IF name1 = <<>> \/ name2 = <<>> THEN Scored(<<>>, RatZero)
    ELSE IF name1 = name2 THEN Scored(<<>>, RatOne)
    ELSE ScoredFrom(Signals(name1, name2, haveRapidfuzz, havePhonetics, lib))

\* the value _fuzzy_match_score returns
FuzzyMatchScore(name1, name2, haveRapidfuzz, havePhonetics, lib) ==
    ScoreReturn(name1, name2, haveRapidfuzz, havePhonetics, lib).score

(***************************************************************************)
(* Inventory Index: MedicineValidator                                      *)
(***************************************************************************)
\* An entry of a JSON list (a detected name, an inventory item): a string,
\* a null, or a structured record (a dict): RecordItem(t) is a record of the
\* legacy format whose identity.generic_name is t
StrItem(t) == [kind |-> "str", text |-> t]
NullItem == [kind |-> "null", text |-> <<>>]
RecordItem(t) == [kind |-> "record", text |-> t]
\* a record whose "instructions" is no mapping
BadRecordItem == [kind |-> "bad_record", text |-> <<>>]

\* bool(item)
Truthy(item) ==
    IF item.kind = "str" THEN item.text # <<>>
    ELSE item.kind \in {"record", "bad_record"}

\* str(item), for the kinds an inventory file holds
StrOf(item) ==
    IF item.kind = "null" THEN <<"N","o","n","e">> ELSE item.text

\* [f(row) for row in rows if keep(row)] for the shapes of _load_database
RECURSIVE NamesOfList(_)
NamesOfList(rows) ==
    IF rows = <<>> THEN <<>>
    ELSE <<StrOf(Head(rows)[1])>> \o NamesOfList(Tail(rows))

RECURSIVE NamesOfMedicines(_)
NamesOfMedicines(rows) ==
    IF rows = <<>> THEN <<>>
    ELSE (IF Truthy(Head(rows)[1]) THEN <<StrOf(Head(rows)[1])>> ELSE <<>>)
             \o NamesOfMedicines(Tail(rows))

RECURSIVE NamesOfValues(_)
NamesOfValues(rows) ==
    IF rows = <<>> THEN <<>>
    ELSE (IF Head(rows)[1].kind = "str" /\ Truthy(Head(rows)[1])
          THEN <<Head(rows)[1].text>> ELSE <<>>)
             \o NamesOfValues(Tail(rows))

\* csv rows (first column) and text lines (a line is a row of one field)
RECURSIVE NamesOfRows(_)
NamesOfRows(rows) ==
    IF rows = <<>> THEN <<>>
    ELSE (IF Head(rows) # <<>> /\ Strip(Head(rows)[1].text) # <<>>
          THEN <<Strip(Head(rows)[1].text)>> ELSE <<>>)
             \o NamesOfRows(Tail(rows))

\* [med for med in original_names if med]
RECURSIVE NonEmptyNames(_)
NonEmptyNames(names) ==
    IF names = <<>> THEN <<>>
    ELSE (IF Head(names) # <<>> THEN <<Head(names)>> ELSE <<>>)
             \o NonEmptyNames(Tail(names))

\* the fields __init__ sets before it loads anything
NotLoaded(raise) ==
    [raised |-> raise, db_loaded |-> FALSE,
     medicine_db |-> <<>>, medicine_db_original |-> <<>>]

\* a loader that marks the database loaded only when it holds a name
LoadedFrom_NonEmptyOnly(original_names) ==
    [raised |-> FALSE, db_loaded |-> NonEmptyNames(original_names) # <<>>,
     medicine_db |-> [i \in 1..Len(NonEmptyNames(original_names)) |->
                          PreprocessName(NonEmptyNames(original_names)[i])],
     medicine_db_original |-> NonEmptyNames(original_names)]

\* the try block of _load_database on a file that opened and decoded
LoadedFrom(original_names) ==
    [raised |-> FALSE, db_loaded |-> TRUE,
     medicine_db |-> [i \in 1..Len(NonEmptyNames(original_names)) |->
                          PreprocessName(NonEmptyNames(original_names)[i])],
     medicine_db_original |-> NonEmptyNames(original_names)]

\* a loader without the try block: a file that cannot be read or decoded
\* makes the constructor raise
LoadDatabase_Unguarded(f) ==
    IF ~f.has_path \/ ~f.exists THEN NotLoaded(FALSE)
    ELSE IF ~f.readable \/ ~f.decodes THEN NotLoaded(TRUE)
    ELSE IF f.suffix = ".json"
         THEN IF f.shape = "list" THEN LoadedFrom(NamesOfList(f.rows))
              ELSE IF f.shape = "medicines" THEN LoadedFrom(NamesOfMedicines(f.rows))
              ELSE IF f.shape = "medicines_null" THEN NotLoaded(TRUE)
              ELSE IF f.shape = "values" THEN LoadedFrom(NamesOfValues(f.rows))
              ELSE LoadedFrom(<<>>)
    ELSE LoadedFrom(NamesOfRows(f.rows))

\* __init__ with _load_database: the validator's fields for a database file.
\* Every exception of the try block is caught and leaves the fields of
\* __init__; "raised" tells whether the constructor raised.
LoadDatabase(f) ==
    IF ~f.has_path \/ ~f.exists THEN NotLoaded(FALSE)
    ELSE IF ~f.readable \/ ~f.decodes THEN NotLoaded(FALSE)
    ELSE IF f.suffix = ".json"
         THEN IF f.shape = "list" THEN LoadedFrom(NamesOfList(f.rows))
              ELSE IF f.shape = "medicines" THEN LoadedFrom(NamesOfMedicines(f.rows))
              ELSE IF f.shape = "medicines_null" THEN NotLoaded(FALSE)
              ELSE IF f.shape = "values" THEN LoadedFrom(NamesOfValues(f.rows))
              ELSE LoadedFrom(<<>>)
    ELSE LoadedFrom(NamesOfRows(f.rows))

\* _preprocess_name on a list entry: [raised, text].  A falsy entry gives "",
\* a string is normalised, any other entry has no lower() (AttributeError)
PreprocessItem(item) ==
    IF ~Truthy(item) THEN [raised |-> FALSE, text |-> <<>>]
    ELSE IF item.kind = "str" THEN [raised |-> FALSE, text |-> PreprocessName(item.text)]
    ELSE [raised |-> TRUE, text |-> <<>>]

\* len(self.medicine_db) > 10
RapidfuzzMinSize == 10

\* the body of the for loop of find_closest_match at entry n: the entry
\* replaces the best so far when score > best_score.  A best is <<best_index,
\* best_score>>, best_index 0 standing for the code's -1
KeepBest(before, n, score) ==
    IF RatLess(before[2], score) THEN <<n, score>> ELSE before

\* the for loop of find_closest_match over entries 1..n
RECURSIVE FullScan(_, _, _, _, _, _)
FullScan(db, n, query, haveRapidfuzz, havePhonetics, lib) ==
    IF n = 0 THEN <<0, RatZero>>
    ELSE KeepBest(FullScan(db, n - 1, query, haveRapidfuzz, havePhonetics, lib), n,
                  FuzzyMatchScore(query, db[n], haveRapidfuzz, havePhonetics, lib))

\* what find_closest_match returns: [raised, found, name, score]
NoneFound(sc) == [raised |-> FALSE, found |-> FALSE, name |-> <<>>, score |-> sc]

\* the search of find_closest_match for a preprocessed name: the hit of
\* process.extractOne when rapidfuzz is imported, the inventory has more than
\* ten entries and extractOne answers an entry; the full scan otherwise
BestCandidate(v, query, avail, lib, ext) ==
    IF avail.rapidfuzz /\ Len(v.medicine_db) > RapidfuzzMinSize /\ ext.kind = "hit"
    THEN <<ext.index, Rat(ext.score, 100)>>
    ELSE FullScan(v.medicine_db, Len(v.medicine_db), query,
                  avail.rapidfuzz, avail.phonetics, lib)

\* a threshold test that returns the normalised entry of medicine_db
ThresholdTest_Normalised(v, best) ==
    IF RatGeq(best[2], v.match_threshold) /\ best[1] >= 1
    THEN [raised |-> FALSE, found |-> TRUE,
          name |-> v.medicine_db[best[1]], score |-> best[2]]
    ELSE NoneFound(best[2])

\* best_score >= self.match_threshold and best_index >= 0
ThresholdTest(v, best) ==
    IF RatGeq(best[2], v.match_threshold) /\ best[1] >= 1
    THEN [raised |-> FALSE, found |-> TRUE,
          name |-> v.medicine_db_original[best[1]], score |-> best[2]]
    ELSE NoneFound(best[2])

\* find_closest_match after its first guard, query = _preprocess_name(entry)
MatchPreprocessed(v, query, avail, lib, ext) ==
    IF query.raised THEN [NoneFound(RatZero) EXCEPT !.raised = TRUE]
    ELSE IF query.text = <<>> THEN NoneFound(RatZero)
    ELSE ThresholdTest(v, BestCandidate(v, query.text, avail, lib, ext))

\* find_closest_match on validator v for a list entry.  avail tells which
\* optional libraries were imported, ext is what process.extractOne answers
\* (an exception, None, or a hit with its index and its score in percent),
\* lib what the libraries answer in the custom scorer.
FindClosestMatch(v, item, avail, lib, ext) ==
    IF ~v.db_loaded \/ v.medicine_db = <<>> THEN NoneFound(RatZero)
    ELSE MatchPreprocessed(v, PreprocessItem(item), avail, lib, ext)

\* the outcome record of validate_medicine
Outcome(item, st, has, nm, sc) ==
    [raised |-> FALSE, valid |-> has, matched_name |-> nm,
     similarity_score |-> sc, status |-> st, detected_name |-> item]

\* validate_medicine after its guard on db_loaded, m = find_closest_match(entry)
OutcomeOfMatch(v, item, m) ==
    IF m.raised
    THEN [Outcome(item, "raised", FALSE, <<>>, RatZero) EXCEPT !.raised = TRUE]
    ELSE IF m.found /\ m.name # <<>> /\ RatGeq(m.score, v.match_threshold)
         THEN Outcome(item, "in_stock", TRUE, m.name, m.score)
    ELSE Outcome(item, "not_in_stock", FALSE, <<>>, m.score)

\* validate_medicine: the outcome record, or raised when the lookup raises
ValidateMedicine(v, item, avail, lib, ext) ==
    IF ~v.db_loaded THEN Outcome(item, "unknown", FALSE, <<>>, RatZero)
    ELSE OutcomeOfMatch(v, item, FindClosestMatch(v, item, avail, lib, ext))

(***************************************************************************)
(* Inputs of the pipeline model                                            *)
(***************************************************************************)
NameAb5 == <<"A","b"," ","5","m","g">>
NameAb2 == <<"A","b"," ","2","m","g">>
NameCd == <<"C","d">>
NameAbx == <<"A","b","x">>

\* a database file: whether a path is configured, the file exists, opens and
\* decodes, its suffix, the shape of its content and its rows of cells
DbFile(path, exists, readable, decodes, suffix, shape, rows) ==
    [has_path |-> path, exists |-> exists, readable |-> readable,
     decodes |-> decodes, suffix |-> suffix, shape |-> shape, rows |-> rows]

OneColumn(items) == [i \in 1..Len(items) |-> <<items[i]>>]

BigInventory ==
    <<NameAb5, NameCd, <<"E","a">>, <<"E","b">>, <<"E","c">>, <<"E","d">>,
      <<"E","e">>, <<"E","f">>, <<"E","g">>, <<"E","h">>, NameAbx>>

DbFiles ==
    { DbFile(FALSE, FALSE, FALSE, FALSE, ".json", "list", <<>>),
      DbFile(TRUE, FALSE, FALSE, FALSE, ".json", "list", <<>>),
      DbFile(TRUE, TRUE, FALSE, FALSE, ".csv", "rows", <<>>),
      DbFile(TRUE, TRUE, TRUE, FALSE, ".json", "list", <<>>),
      DbFile(TRUE, TRUE, TRUE, TRUE, ".json", "medicines_null", <<>>),
      DbFile(TRUE, TRUE, TRUE, TRUE, ".json", "list",
             OneColumn(<<StrItem(NameAb5), StrItem(<<>>), StrItem(NameCd)>>)),
      DbFile(TRUE, TRUE, TRUE, TRUE, ".json", "medicines",
             OneColumn(<<StrItem(NameAb5), NullItem, StrItem(NameAb2)>>)),
      DbFile(TRUE, TRUE, TRUE, TRUE, ".json", "values",
             OneColumn(<<StrItem(NameCd), NullItem>>)),
      DbFile(TRUE, TRUE, TRUE, TRUE, ".json", "scalar", <<>>),
      DbFile(TRUE, TRUE, TRUE, TRUE, ".json", "list", <<>>),
      DbFile(TRUE, TRUE, TRUE, TRUE, ".txt", "lines", <<>>),
      DbFile(TRUE, TRUE, TRUE, TRUE, ".csv", "rows",
             << <<StrItem(<<" ","C","d"," ">>), StrItem(<<"x">>)>>, <<>>,
                <<StrItem(<<" ">>)>> >>),
      DbFile(TRUE, TRUE, TRUE, TRUE, ".txt", "lines",
             OneColumn(<<StrItem(NameAbx), StrItem(<<" ">>)>>)),
      DbFile(TRUE, TRUE, TRUE, TRUE, ".json", "list",
             OneColumn([i \in 1..Len(BigInventory) |-> StrItem(BigInventory[i])])) }

\* the file is there, opens, decodes and holds something to iterate over
GivesEntries(f) ==
    f.has_path /\ f.exists /\ f.readable /\ f.decodes /\ f.shape # "medicines_null"

\* match_threshold: float = 0.75
DefaultThreshold == Rat(3, 4)

\* configured match thresholds
Thresholds == {Rat(0, 1), DefaultThreshold, Rat(1, 1)}

\* entries of a detected list
DetectedItems ==
    { StrItem(<<"a","b">>), StrItem(NameAbx), StrItem(<<"x","y">>),
      RecordItem(<<"a","b">>), NullItem }

DetectedLists == Strs(DetectedItems, MaxDetected)

\* names passed to the two direct calls: the detected entries and a name
\* spelled as an inventory entry of a second strength
LookupItems == DetectedItems \cup {StrItem(NameAb2)}

\* what the optional libraries answer for a pair of names
LibAnswer(r, p, so, se, raises, m1, m2) ==
    [ratio |-> r, partial |-> p, token_sort |-> so, token_set |-> se,
     meta_raises |-> raises, meta1 |-> m1, meta2 |-> m2]

LibProfiles ==
    { LibAnswer(0, 0, 0, 0, TRUE, <<>>, <<>>),
      LibAnswer(75, 50, 100, 0, FALSE, <<"A","B","K">>, <<"A","B","K","S">>) }

\* the library answers that matter in the current configuration
LibAnswers ==
    IF rapidfuzz_available \/ phonetics_available THEN LibProfiles
    ELSE {LibAnswer(0, 0, 0, 0, TRUE, <<>>, <<>>)}

ExtractAnswer(k, i, sc) == [kind |-> k, index |-> i, score |-> sc]

\* what process.extractOne answers with score_cutoff = match_threshold * 100:
\* an exception, None, or an entry whose score reaches the cutoff
ExtractAnswers ==
    IF rapidfuzz_available /\ Len(medicine_db) > RapidfuzzMinSize
    THEN {ExtractAnswer("raises", 0, 0), ExtractAnswer("none", 0, 0)}
          \cup {ExtractAnswer("hit", i, sc) :
                    i \in {1, Len(medicine_db)},
                    sc \in {sc \in {0, 75, 100} : RatGeq(Rat(sc, 100), match_threshold)}}
    ELSE {ExtractAnswer("none", 0, 0)}

\* configured gemini.max_retries values
RetryValues == (-1)..MaxRetries

AiReply(k, items) == [kind |-> k, items |-> items]

\* what one attempt of the external call gives for a batch of names: an
\* exception, text that json.loads rejects, a JSON value that is no object,
\* an object without "medicines", an object whose "medicines" is null, or an
\* object with a list of names
AiReplies(batch) ==
    { AiReply("raises", <<>>), AiReply("undecodable", <<>>),
      AiReply("not_object", <<>>), AiReply("no_key", <<>>), AiReply("null", <<>>),
      AiReply("list", batch), AiReply("list", <<>>),
      AiReply("list", <<StrItem(NameCd)>>) }

\* what _validate_with_ai returns: a list of names or None, and the return
\* statement taken: "reply" (return validated_medicines), "fallback" (return
\* medicines in the except branch), "end" (the function falls off its end)
AiList(via, items) == [returned |-> TRUE, via |-> via, is_list |-> TRUE, items |-> items]
AiNone(via) == [returned |-> TRUE, via |-> via, is_list |-> FALSE, items |-> <<>>]
NoReturn == [returned |-> FALSE, via |-> "none", is_list |-> FALSE, items |-> <<>>]

(***************************************************************************)
(* Specification Spec: a validator is constructed, looked up directly, and *)
(* used by _validate_medicine_names on a detected list                     *)
(***************************************************************************)
Validator ==
    [db_loaded |-> db_loaded, medicine_db |-> medicine_db,
     medicine_db_original |-> medicine_db_original,
     match_threshold |-> match_threshold]

Available == [rapidfuzz |-> rapidfuzz_available, phonetics |-> phonetics_available]

NoOutcome ==
    [raised |-> FALSE, valid |-> FALSE, matched_name |-> <<>>,
     similarity_score |-> RatZero, status |-> "none", detected_name |-> NullItem]
NoMatch == [raised |-> FALSE, found |-> FALSE, name |-> <<>>, score |-> RatZero]
NoLookup == [called |-> FALSE, item |-> NullItem, match |-> NoMatch, outcome |-> NoOutcome]

\* the payload: "medicines", and "not_in_stock" when the key is present
Payload(meds, audit) ==
    [medicines |-> meds, has_not_in_stock |-> audit # <<>>, not_in_stock |-> audit]

RunIdle ==
    /\ medicines = <<>>
    /\ idx = 0
    /\ validated_medicines = <<>>
    /\ not_in_stock = <<>>
    /\ outcomes = <<>>
    /\ result = Payload(<<>>, <<>>)
    /\ ai_mode = "none"
    /\ ai_batch = <<>>
    /\ attempt = 0
    /\ max_retries = 0
    /\ ai_calls = <<>>
    /\ ai_return = NoReturn
    /\ lookup = NoLookup

\* the pipeline is not running
PipeIdle ==
    /\ pc = "idle"
    /\ rapidfuzz_available = FALSE
    /\ phonetics_available = FALSE
    /\ db_file = DbFile(FALSE, FALSE, FALSE, FALSE, ".json", "list", <<>>)
    /\ match_threshold = DefaultThreshold
    /\ db_loaded = FALSE
    /\ medicine_db = <<>>
    /\ medicine_db_original = <<>>
    /\ RunIdle

\* the normalizer is not running
NormIdle ==
    /\ nPc = "idle"
    /\ nIn = <<>>
    /\ nOut = <<>>
    /\ nOut2 = <<>>

\* a reply of the external model to the image prompt: every attempt of
\* generate_content raises ("raises"), a response with the text given
\* ("text"), or a response whose text is the JSON text of an object, given by
\* what json.loads decodes it to ("object"): has_key tells whether the object
\* has the key "medicines", is_null whether its value is null
ApiReply(k, t, has, null, meds) ==
    [kind |-> k, text |-> t, has_key |-> has, is_null |-> null, medicines |-> meds]
NoReply == ApiReply("none", <<>>, FALSE, FALSE, <<>>)

\* what parse_prescription_from_image gave its caller: nothing yet, a
\* ParsedPrescription (the identity.generic_name of each of its medicines),
\* or an exception with its type and message
ParseReturned(names) ==
    [kind |-> "returned", exception |-> "none", message |-> "none",
     prescription |-> [medicines |-> names]]
ParseRaised(type, msg) ==
    [kind |-> "raised", exception |-> type, message |-> msg,
     prescription |-> [medicines |-> <<>>]]
NoParseOutcome ==
    [kind |-> "none", exception |-> "none", message |-> "none",
     prescription |-> [medicines |-> <<>>]]

\* ProcessingResult(success, prescription, error); raised tells that
\* process_image let an exception through instead of returning
NoProcessingResult ==
    [returned |-> FALSE, raised |-> FALSE, success |-> FALSE,
     has_prescription |-> FALSE,
     prescription |-> [medicines |-> <<>>],
     has_error |-> FALSE, error |-> "none"]

\* the document save_result dumps: its keys and the values under them
NoOutput ==
    [written |-> FALSE, keys |-> {}, medicines |-> <<>>, not_in_stock |-> <<>>,
     error |-> "none"]

\* a thread record: the call it is in (op, names), the entry it is at, the
\* locals of find_closest_match (preprocessed, the loop position n, the best
\* so far) and the outcomes it has returned
Thread(p, op, names, at, query, n, best, results) ==
    [pc |-> p, op |-> op, names |-> names, at |-> at, preprocessed |-> query,
     n |-> n, best |-> best, results |-> results]

\* a call of _fuzzy_match_score that has not returned: its arguments and the
\* library answers; returned once it has, with the (score, weight) pairs
\* collected and the value returned
ScoreCall(name1, name2, lib) ==
    [name1 |-> name1, name2 |-> name2, lib |-> lib, returned |-> FALSE,
     signals |-> <<>>, score |-> RatZero]

\* Config as the class statement leaves it, no thread inside its methods:
\* the file behind APP_CONFIG_PATH, _initialized, _app_config, the derived
\* attributes that are set, and the threads calling
NoConfig == [file |-> "none", initialized |-> FALSE, app_config |-> "none",
             derived |-> {}, callers |-> <<>>]

\* the command line has not started its parallel mode
NoCli == [pc |-> "idle", images |-> <<>>, tasks |-> <<>>, results |-> <<>>,
          result_dict |-> <<>>, reports |-> <<>>]

\* no retry loop, no Config call and no parallel run is under way
LateIdle ==
    /\ model_calls = <<>>
    /\ config = NoConfig
    /\ cli = NoCli

\* no repair scan is running
NoScan == [pc |-> "idle", text |-> <<>>, i |-> 0, st |-> <<>>]

\* nothing runs besides: no thread, no scorer call, no repair scan
RestIdle ==
    /\ threads = <<>>
    /\ scoring = ScoreCall(<<>>, <<>>, LibAnswer(0, 0, 0, 0, TRUE, <<>>, <<>>))
    /\ scan = NoScan
    /\ fixed = <<>>
    /\ LateIdle

\* no image is being processed
ItemIdle ==
    /\ validate_medicine_names = TRUE
    /\ api_reply = NoReply
    /\ decoded = "none"
    /\ debug_saves = 0
    /\ parse_outcome = NoParseOutcome
    /\ processing_result = NoProcessingResult
    /\ output_data = NoOutput

(***************************************************************************)
(* json.loads: the JSON grammar of Python's json module (strict mode).     *)
(* A parse yields the kind of the value and its text without insignificant *)
(* whitespace; two parses yield the same payload when kind and text agree. *)
(***************************************************************************)
JsonWhitespace == {" ", "\t", "\n", "\r"}
ControlChars == {"\t", "\n", "\r", "\f"}
EscapeChars == {"\"", "\\", "/", "b", "f", "n", "r", "t"}
HexChars == DigitChars \cup {"a","b","c","d","e","f","A","B","C","D","E","F"}

JsonFail == [ok |-> FALSE, end |-> 0, kind |-> "none", val |-> <<>>]
JsonGood(e, k, v) == [ok |-> TRUE, end |-> e, kind |-> k, val |-> v]

CharAt(s, i) == IF i >= 1 /\ i <= Len(s) THEN s[i] ELSE "EOF"

RECURSIVE SkipWs(_, _)
SkipWs(s, i) ==
    IF i <= Len(s) /\ s[i] \in JsonWhitespace THEN SkipWs(s, i + 1) ELSE i

\* scanstring: i is the position after the opening quote; the position after
\* the closing quote, or 0 (unterminated, control character, bad escape)
RECURSIVE ScanString(_, _)
ScanString(s, i) ==
    IF i > Len(s) THEN 0
    ELSE IF s[i] = "\"" THEN i + 1
    ELSE IF s[i] \in ControlChars THEN 0
    ELSE IF s[i] = "\\"
         THEN IF CharAt(s, i + 1) = "u"
              THEN IF \A k \in 2..5 : CharAt(s, i + k) \in HexChars
                   THEN ScanString(s, i + 6) ELSE 0
              ELSE IF CharAt(s, i + 1) \in EscapeChars
                   THEN ScanString(s, i + 2) ELSE 0
    ELSE ScanString(s, i + 1)

\* NUMBER_RE = (-?(?:0|[1-9]\d*))(\.\d+)?([eE][-+]?\d+)? matched at i:
\* the position after the match, or 0
NumberEnd(s, i) ==
    LET j0 == IF CharAt(s, i) = "-" THEN i + 1 ELSE i
        j1 == IF CharAt(s, j0) = "0" THEN j0 + 1
              ELSE IF CharAt(s, j0) \in DigitChars THEN DigitRunEnd(s, j0)
              ELSE 0
        j2 == IF CharAt(s, j1) = "." /\ CharAt(s, j1 + 1) \in DigitChars
              THEN DigitRunEnd(s, j1 + 1) ELSE j1
        k  == IF CharAt(s, j2 + 1) \in {"+", "-"} THEN j2 + 2 ELSE j2 + 1
        j3 == IF CharAt(s, j2) \in {"e", "E"} /\ CharAt(s, k) \in DigitChars
              THEN DigitRunEnd(s, k) ELSE j2
    IN IF j1 = 0 THEN 0 ELSE j3

JsonLiterals ==
    << << <<"n","u","l","l">>, "null" >>,
       << <<"t","r","u","e">>, "bool" >>,
       << <<"f","a","l","s","e">>, "bool" >> >>

JsonConstants ==
    << <<"N","a","N">>,
       <<"I","n","f","i","n","i","t","y">>,
       <<"-","I","n","f","i","n","i","t","y">> >>

RECURSIVE ParseValue(_, _)
RECURSIVE ParseMembers(_, _, _)
RECURSIVE ParseItems(_, _, _)

\* JSONObject: i is the position after the opening brace
ParseObject(s, i) ==
    LET j == SkipWs(s, i)
    IN IF CharAt(s, j) = "}" THEN JsonGood(j + 1, "object", <<"{", "}">>)
       ELSE IF CharAt(s, j) = "\"" THEN ParseMembers(s, j, <<"{">>)
       ELSE JsonFail

\* one "key": value pair starting at the key's opening quote j, then the rest
ParseMembers(s, j, acc) ==
    LET ke == ScanString(s, j + 1)
        c  == SkipWs(s, ke)
        v  == ParseValue(s, SkipWs(s, c + 1))
        n  == SkipWs(s, v.end)
        m  == SkipWs(s, n + 1)
        sofar == acc \o Slice(s, j, ke - 1) \o <<":">> \o v.val
    IN IF ke = 0 \/ CharAt(s, c) # ":" THEN JsonFail
       ELSE IF ~v.ok THEN JsonFail
       ELSE IF CharAt(s, n) = "}" THEN JsonGood(n + 1, "object", sofar \o <<"}">>)
       ELSE IF CharAt(s, n) = "," /\ CharAt(s, m) = "\""
            THEN ParseMembers(s, m, sofar \o <<",">>)
       ELSE JsonFail

\* JSONArray: i is the position after the opening bracket
ParseArray(s, i) ==
    LET j == SkipWs(s, i)
    IN IF CharAt(s, j) = "]" THEN JsonGood(j + 1, "array", <<"[", "]">>)
       ELSE ParseItems(s, j, <<"[">>)

\* one array item starting at j, then the rest
ParseItems(s, j, acc) ==
    LET v == ParseValue(s, j)
        n == SkipWs(s, v.end)
        sofar == acc \o v.val
    IN IF ~v.ok THEN JsonFail
       ELSE IF CharAt(s, n) = "]" THEN JsonGood(n + 1, "array", sofar \o <<"]">>)
       ELSE IF CharAt(s, n) = ","
            THEN ParseItems(s, SkipWs(s, n + 1), sofar \o <<",">>)
       ELSE JsonFail

\* scan_once
ParseValue(s, i) ==
    LET c == CharAt(s, i)
        se == ScanString(s, i + 1)
        ne == NumberEnd(s, i)
    IN IF c = "\""
       THEN IF se = 0 THEN JsonFail ELSE JsonGood(se, "string", Slice(s, i, se - 1))
       ELSE IF c = "{" THEN ParseObject(s, i + 1)
       ELSE IF c = "[" THEN ParseArray(s, i + 1)
       ELSE IF \E l \in 1..Len(JsonLiterals) : MatchAt(s, i, JsonLiterals[l][1])
       THEN LET l == CHOOSE l \in 1..Len(JsonLiterals) : MatchAt(s, i, JsonLiterals[l][1])
            IN JsonGood(i + Len(JsonLiterals[l][1]), JsonLiterals[l][2], JsonLiterals[l][1])
       ELSE IF ne # 0 THEN JsonGood(ne, "number", Slice(s, i, ne - 1))
       ELSE IF \E l \in 1..Len(JsonConstants) : MatchAt(s, i, JsonConstants[l])
       THEN LET l == CHOOSE l \in 1..Len(JsonConstants) : MatchAt(s, i, JsonConstants[l])
            IN JsonGood(i + Len(JsonConstants[l]), "number", JsonConstants[l])
       ELSE JsonFail

\* json.loads: one value with optional surrounding whitespace and nothing else
JsonLoads(s) ==
    LET v == ParseValue(s, SkipWs(s, 1))
    IN IF v.ok /\ SkipWs(s, v.end) = Len(s) + 1 THEN v ELSE JsonFail

(***************************************************************************)
(* Recovery Parser: GeminiService._parse_json_response / _fix_json_issues  *)
(***************************************************************************)
\* re.search(r'\{.*\}', text, re.DOTALL): from the first opening brace to the
\* last closing brace after it; <<0, 0>> when there is no match
BraceSpan(s) ==
    LET opens  == {i \in 1..Len(s) : s[i] = "{"}
        first  == CHOOSE i \in opens : \A k \in opens : i <= k
        closes == {i \in 1..Len(s) : s[i] = "}" /\ i > first}
        last   == CHOOSE i \in closes : \A k \in closes : i >= k
    IN IF opens = {} THEN <<0, 0>>
       ELSE IF closes = {} THEN <<0, 0>>
       ELSE <<first, last>>

\* the state of the scan of _fix_json_issues before the first character;
\* last_valid_pos is kept 1-based here, 0 standing for the code's -1
ScanStart ==
    [brace_count |-> 0, bracket_count |-> 0, in_string |-> FALSE,
     escape_next |-> FALSE, last_valid_pos |-> 0]

\* the loop with the quote test ahead of the escape test
ScanStep_QuoteFirst(st, c, i) ==
    IF c = "\"" THEN [st EXCEPT !.in_string = ~st.in_string, !.escape_next = FALSE]
    ELSE IF st.escape_next THEN [st EXCEPT !.escape_next = FALSE]
    ELSE IF c = "\\" THEN [st EXCEPT !.escape_next = TRUE]
    ELSE IF st.in_string THEN st
    ELSE IF c = "{" THEN [st EXCEPT !.brace_count = st.brace_count + 1]
    ELSE IF c = "}"
         THEN [st EXCEPT !.brace_count = st.brace_count - 1,
                         !.last_valid_pos =
                             IF st.brace_count - 1 = 0 /\ st.bracket_count = 0
                             THEN i ELSE st.last_valid_pos]
    ELSE IF c = "[" THEN [st EXCEPT !.bracket_count = st.bracket_count + 1]
    ELSE IF c = "]"
         THEN [st EXCEPT !.bracket_count = st.bracket_count - 1,
                         !.last_valid_pos =
                             IF st.brace_count = 0 /\ st.bracket_count - 1 = 0
                             THEN i ELSE st.last_valid_pos]
    ELSE st

\* one iteration of the for loop of _fix_json_issues, on character c at
\* 1-based position i
ScanStep(st, c, i) ==
    IF st.escape_next THEN [st EXCEPT !.escape_next = FALSE]
    ELSE IF c = "\\" THEN [st EXCEPT !.escape_next = TRUE]
    ELSE IF c = "\"" THEN [st EXCEPT !.in_string = ~st.in_string]
    ELSE IF st.in_string THEN st
    ELSE IF c = "{" THEN [st EXCEPT !.brace_count = st.brace_count + 1]
    ELSE IF c = "}"
         THEN [st EXCEPT !.brace_count = st.brace_count - 1,
                         !.last_valid_pos =
                             IF st.brace_count - 1 = 0 /\ st.bracket_count = 0
                             THEN i ELSE st.last_valid_pos]
    ELSE IF c = "[" THEN [st EXCEPT !.bracket_count = st.bracket_count + 1]
    ELSE IF c = "]"
         THEN [st EXCEPT !.bracket_count = st.bracket_count - 1,
                         !.last_valid_pos =
                             IF st.brace_count = 0 /\ st.bracket_count - 1 = 0
                             THEN i ELSE st.last_valid_pos]
    ELSE st

\* the scan state after the first n characters
RECURSIVE ScanPrefix(_, _)
ScanPrefix(s, n) ==
    IF n = 0 THEN ScanStart ELSE ScanStep(ScanPrefix(s, n - 1), s[n], n)

\* _fix_json_issues: the code's test last_valid_pos > 0 is on the 0-based
\* index, that is > 1 on the 1-based one
FixedFrom_Exclusive(s, last) == IF last > 1 THEN SubSeq(s, 1, last - 1) ELSE s

FixedFrom(s, last) == IF last > 1 THEN SubSeq(s, 1, last) ELSE s

FixJsonIssues(s) == FixedFrom(s, ScanPrefix(s, Len(s)).last_valid_pos)

Returned(v, how) == [outcome |-> "returned", kind |-> v.kind, val |-> v.val, via |-> how]
Raised == [outcome |-> "raised", kind |-> "none", val |-> <<>>, via |-> "none"]
NoResult == [outcome |-> "none", kind |-> "none", val |-> <<>>, via |-> "none"]

\* first attempt of _parse_json_response: json.loads(response_text)
DirectResult(text) == JsonLoads(text)

\* second attempt: json.loads of the brace span, when there is one
SpanResult(text) ==
    LET sp == BraceSpan(text)
    IN IF sp = <<0, 0>> THEN JsonFail ELSE JsonLoads(SubSeq(text, sp[1], sp[2]))

\* third attempt: json.loads of the repaired text
RepairResult(text) == JsonLoads(FixJsonIssues(text))

\* _parse_json_response: the value returned, or the JSONDecodeError raised
ParseJsonResponse(text) ==
    IF DirectResult(text).ok THEN Returned(DirectResult(text), "direct")
    ELSE IF SpanResult(text).ok THEN Returned(SpanResult(text), "span")
    ELSE IF RepairResult(text).ok THEN Returned(RepairResult(text), "repair")
    ELSE Raised

(***************************************************************************)
(* Specification SpecParse: the recovery parser applied to a raw text      *)
(***************************************************************************)
\* {"medicines":["A","B"]}
CleanObject ==
    <<"{", "\"", "m","e","d","i","c","i","n","e","s", "\"", ":", "[",
      "\"", "A", "\"", ",", "\"", "B", "\"", "]", "}">>

ProseAlphabet == {"{", "}", "[", "]", "\"", "\\", "x", " "}
RawAlphabet == {"{", "}", "[", "]", "\"", "1", "x"}

RawTexts ==
    {CleanObject \o p : p \in Strs(ProseAlphabet, MaxProse)}
        \cup Strs(RawAlphabet, MaxRaw)

\* the recovery parser is not running
ParseIdle ==
    /\ pPc = "idle"
    /\ pRaw = <<>>
    /\ pRes = NoResult

ParseInit ==
    /\ RestIdle
    /\ NormIdle
    /\ PipeIdle
    /\ ItemIdle
    /\ pPc = "direct"
    /\ pRaw \in RawTexts
    /\ pRes = NoResult

\* try: return json.loads(response_text)
TryDirect ==
    /\ pPc = "direct"
    /\ IF DirectResult(pRaw).ok
       THEN pRes' = Returned(DirectResult(pRaw), "direct") /\ pPc' = "done"
       ELSE pRes' = pRes /\ pPc' = "span"
    /\ UNCHANGED pRaw
    /\ UNCHANGED <<normVars, pipeVars, itemVars, restVars>>

\* json_match = re.search(...); return json.loads(json_match.group(0))
TrySpan ==
    /\ pPc = "span"
    /\ IF SpanResult(pRaw).ok
       THEN pRes' = Returned(SpanResult(pRaw), "span") /\ pPc' = "done"
       ELSE pRes' = pRes /\ pPc' = "repair"
    /\ UNCHANGED pRaw
    /\ UNCHANGED <<normVars, pipeVars, itemVars, restVars>>

\* fixed_text = self._fix_json_issues(response_text); json.loads or raise
TryRepair ==
    /\ pPc = "repair"
    /\ IF RepairResult(pRaw).ok
       THEN pRes' = Returned(RepairResult(pRaw), "repair")
       ELSE pRes' = Raised
    /\ pPc' = "done"
    /\ UNCHANGED pRaw
    /\ UNCHANGED <<normVars, pipeVars, itemVars, restVars>>

ParseNext == TryDirect \/ TrySpan \/ TryRepair

SpecParse == ParseInit /\ [][ParseNext]_vars

(***************************************************************************)
(* Specification SpecNorm: the normalizer applied to a name, and again to  *)
(* its own output                                                          *)
(***************************************************************************)
NormAlphabet == {"5", "M", "g", " ", "-", "%", "_"}

\* names that exercise the abbreviation map and the filler tokens
NormSamples ==
    { <<"T","a","b","s">>, <<"5"," ","r","x"," ","m","g">>,
      <<"X"," ","5","0","%">>, <<"c","r","e"," ","g","e","l">> }

NormInputs == Strs(NormAlphabet, MaxNameLen) \cup NormSamples

NormInit ==
    /\ RestIdle
    /\ ParseIdle
    /\ PipeIdle
    /\ ItemIdle
    /\ nPc = "start"
    /\ nIn \in NormInputs
    /\ nOut = <<>>
    /\ nOut2 = <<>>

Normalize ==
    /\ nPc = "start"
    /\ nOut' = PreprocessName(nIn)
    /\ nPc' = "once"
    /\ UNCHANGED <<nIn, nOut2>>
    /\ UNCHANGED <<parseVars, pipeVars, itemVars, restVars>>

NormalizeAgain ==
    /\ nPc = "once"
    /\ nOut2' = PreprocessName(nOut)
    /\ nPc' = "twice"
    /\ UNCHANGED <<nIn, nOut>>
    /\ UNCHANGED <<parseVars, pipeVars, itemVars, restVars>>

NormNext == Normalize \/ NormalizeAgain

SpecNorm == NormInit /\ [][NormNext]_vars

\* C5: normalisation is idempotent: normalising the normalised name gives
\* the normalised name again, for every input name.
C5_NormalizeIdempotent == nPc = "twice" => nOut2 = nOut

\* before MedicineValidator(db_path, match_threshold) runs
Init ==
    /\ RestIdle
    /\ NormIdle
    /\ ParseIdle
    /\ ItemIdle
    /\ pc = "new"
    /\ rapidfuzz_available \in BOOLEAN
    /\ phonetics_available \in BOOLEAN
    /\ db_file \in DbFiles
    /\ match_threshold \in Thresholds
    \* a file that gives no entries goes with the default threshold, and the
    \* inventory of more than ten entries with rapidfuzz imported
    /\ GivesEntries(db_file) \/ match_threshold = DefaultThreshold
    /\ Len(db_file.rows) > RapidfuzzMinSize => rapidfuzz_available
    /\ db_loaded = FALSE
    /\ medicine_db = <<>>
    /\ medicine_db_original = <<>>
    /\ RunIdle

\* MedicineValidator.__init__ with _load_database
Construct ==
    /\ pc = "new"
    /\ LET r == LoadDatabase(db_file)
       IN /\ db_loaded' = r.db_loaded
          /\ medicine_db' = r.medicine_db
          /\ medicine_db_original' = r.medicine_db_original
          /\ pc' = IF r.raised THEN "construct_raised" ELSE "ready"
    /\ UNCHANGED <<db_file, match_threshold, envVars, lookup, medicines, idx,
                   validated_medicines, not_in_stock, outcomes, result, aiVars,
                   normVars, parseVars, itemVars, restVars>>

\* what the two direct calls return for an entry, m = find_closest_match(entry)
LookedUp(item, m) ==
    [called |-> TRUE, item |-> item, match |-> m,
     outcome |-> IF ~db_loaded THEN Outcome(item, "unknown", FALSE, <<>>, RatZero)
                 ELSE OutcomeOfMatch(Validator, item, m)]

\* a direct call of find_closest_match and of validate_medicine on the
\* constructed validator (the run ends with it)
Lookup ==
    /\ pc = "ready"
    /\ \E item \in LookupItems, lib \in LibAnswers, ext \in ExtractAnswers :
           lookup' = LookedUp(item, FindClosestMatch(Validator, item, Available, lib, ext))
    /\ pc' = "looked"
    /\ UNCHANGED <<envVars, validatorVars, medicines, idx, validated_medicines,
                   not_in_stock, outcomes, result, aiVars, normVars, parseVars, itemVars, restVars>>

\* entry of _validate_with_ai(batch) from mode "batch" or "single": the
\* prompt is built and max_retries is read from the configuration
CallAi(mode, batch) ==
    /\ pc' = "ai"
    /\ ai_mode' = mode
    /\ ai_batch' = batch
    /\ ai_calls' = Append(ai_calls, batch)
    /\ attempt' = 0
    /\ max_retries' \in RetryValues
    /\ ai_return' = NoReturn

\* _validate_medicine_names(result) up to the branch on db_loaded, for a
\* result whose "medicines" is the list meds
BeginValidate(meds) ==
    /\ medicines' = meds
    /\ result' = Payload(meds, <<>>)
    /\ IF meds = <<>>
       THEN /\ pc' = "done"
            /\ idx' = 0
            /\ UNCHANGED aiVars
       ELSE IF db_loaded
       THEN /\ pc' = "loop"
            /\ idx' = 1
            /\ UNCHANGED aiVars
       ELSE /\ idx' = 0
            /\ CallAi("batch", meds)
    /\ validated_medicines' = <<>>
    /\ not_in_stock' = <<>>
    /\ outcomes' = <<>>
    /\ lookup' = NoLookup

\* _validate_medicine_names called on a detected list
StartValidate ==
    /\ pc = "ready"
    /\ \E meds \in DetectedLists : BeginValidate(meds)
    /\ UNCHANGED <<envVars, validatorVars, normVars, parseVars, itemVars, restVars>>

\* the loop moves to the next name, or leaves to the lines after the loop
NextName ==
    /\ idx' = idx + 1
    /\ pc' = IF idx = Len(medicines) THEN "finish" ELSE "loop"

\* branches that keep no audit record of a name below the threshold
Classify_NoAudit(med, r) ==
    IF r.raised
    THEN /\ pc' = "raised"
         /\ UNCHANGED <<idx, validated_medicines, not_in_stock, outcomes, aiVars>>
    ELSE /\ outcomes' = Append(outcomes, r)
         /\ IF r.status = "in_stock"
            THEN /\ validated_medicines' =
                        Append(validated_medicines, StrItem(r.matched_name))
                 /\ NextName
                 /\ UNCHANGED <<not_in_stock, aiVars>>
            ELSE IF r.status = "unknown"
            THEN /\ CallAi("single", <<med>>)
                 /\ UNCHANGED <<idx, validated_medicines, not_in_stock>>
            ELSE /\ NextName
                 /\ UNCHANGED <<validated_medicines, not_in_stock, aiVars>>

\* the branches on validation_result['status'] for the entry med
Classify(med, r) ==
    IF r.raised
    THEN /\ pc' = "raised"
         /\ UNCHANGED <<idx, validated_medicines, not_in_stock, outcomes, aiVars>>
    ELSE /\ outcomes' = Append(outcomes, r)
         /\ IF r.status = "in_stock"
            THEN /\ validated_medicines' =
                        Append(validated_medicines, StrItem(r.matched_name))
                 /\ NextName
                 /\ UNCHANGED <<not_in_stock, aiVars>>
            ELSE IF r.status = "not_in_stock"
            THEN /\ not_in_stock' =
                        Append(not_in_stock,
                               [detected |-> med,
                                best_match_score |-> r.similarity_score])
                 /\ NextName
                 /\ UNCHANGED <<validated_medicines, aiVars>>
            ELSE IF r.status = "unknown"
            THEN /\ CallAi("single", <<med>>)
                 /\ UNCHANGED <<idx, validated_medicines, not_in_stock>>
            ELSE /\ NextName
                 /\ UNCHANGED <<validated_medicines, not_in_stock, aiVars>>

\* one iteration of the for loop over medicines with the database loaded
ValidateOne ==
    /\ pc = "loop"
    /\ \E lib \in LibAnswers, ext \in ExtractAnswers :
           Classify(medicines[idx],
                    ValidateMedicine(Validator, medicines[idx], Available, lib, ext))
    /\ UNCHANGED <<envVars, validatorVars, lookup, medicines, result, normVars, parseVars, itemVars, restVars>>

\* _validate_with_ai returns ret to its caller in _validate_medicine_names
AiReturns(ret) ==
    /\ ai_return' = ret
    /\ IF ai_mode = "batch"
       THEN /\ IF ret.is_list
               THEN /\ validated_medicines' = validated_medicines \o ret.items
                    /\ pc' = "finish"
               ELSE /\ pc' = "raised"
                    /\ UNCHANGED validated_medicines
            /\ UNCHANGED idx
       ELSE /\ validated_medicines' =
                   IF ret.is_list /\ ret.items # <<>>
                   THEN validated_medicines \o ret.items ELSE validated_medicines
            /\ NextName

\* a test that retries once more than configured
RetryAgain_OneMore(n, retries) == n <= retries

\* if attempt < max_retries: continue
RetryAgain(n, retries) == n < retries

\* the body of the retry loop of _validate_with_ai for one reply
AttemptOn(reply) ==
    IF reply.kind = "list"
    THEN AiReturns(AiList("reply", reply.items)) /\ UNCHANGED attempt
    ELSE IF reply.kind = "no_key"
    THEN AiReturns(AiList("reply", <<>>)) /\ UNCHANGED attempt
    ELSE IF reply.kind = "null"
    THEN AiReturns(AiNone("reply")) /\ UNCHANGED attempt
    ELSE IF RetryAgain(attempt, max_retries)
         THEN /\ attempt' = attempt + 1
              /\ UNCHANGED <<pc, idx, validated_medicines, ai_return>>
         ELSE AiReturns(AiList("fallback", ai_batch)) /\ UNCHANGED attempt

\* one iteration of the retry loop of _validate_with_ai
AiAttempt ==
    /\ pc = "ai"
    /\ attempt <= max_retries
    /\ \E reply \in AiReplies(ai_batch) : AttemptOn(reply)
    /\ UNCHANGED <<ai_mode, ai_batch, max_retries, ai_calls>>
    /\ UNCHANGED <<envVars, validatorVars, lookup, medicines, not_in_stock, outcomes,
                   result, normVars, parseVars, itemVars, restVars>>

\* range(max_retries + 1) is exhausted without a return: the function falls
\* off its end
AiNoAttempt ==
    /\ pc = "ai"
    /\ attempt > max_retries
    /\ AiReturns(AiNone("end"))
    /\ UNCHANGED <<ai_mode, ai_batch, attempt, max_retries, ai_calls>>
    /\ UNCHANGED <<envVars, validatorVars, lookup, medicines, not_in_stock, outcomes,
                   result, normVars, parseVars, itemVars, restVars>>

\* the lines after the loop: result["medicines"], result["not_in_stock"]
Finish ==
    /\ pc = "finish"
    /\ result' = Payload(validated_medicines, not_in_stock)
    /\ pc' = "done"
    /\ UNCHANGED <<envVars, validatorVars, lookup, medicines, idx, validated_medicines,
                   not_in_stock, outcomes, aiVars, normVars, parseVars, itemVars, restVars>>

Next == Construct \/ Lookup \/ StartValidate \/ ValidateOne \/ AiAttempt
            \/ AiNoAttempt \/ Finish

Spec == Init /\ [][Next]_vars

(***************************************************************************)
(* Specification SpecItem: PrescriptionAgent.process_image on one image,   *)
(* from the reply of the external model to the document save_result writes *)
(***************************************************************************)
\* the markdown fence and the fence with its language tag; the backquote
\* character is written "^" in the texts of this model
Fence == <<"^","^","^">>
FenceJson == <<"^","^","^","j","s","o","n">>

\* text.startswith(pat), text.endswith(pat)
StartsWith(text, pat) == MatchAt(text, 1, pat)
EndsWith(text, pat) ==
    Len(text) >= Len(pat) /\ MatchAt(text, Len(text) - Len(pat) + 1, pat)

\* the fence at the start of the stripped text is cut off
CutOpeningFence(t) ==
    IF StartsWith(t, FenceJson) THEN Slice(t, Len(FenceJson) + 1, Len(t))
    ELSE IF StartsWith(t, Fence) THEN Slice(t, Len(Fence) + 1, Len(t))
    ELSE t

\* the fence at the end is cut off
CutClosingFence(t) ==
    IF EndsWith(t, Fence) THEN Slice(t, 1, Len(t) - Len(Fence)) ELSE t

\* _clean_markdown_response
CleanMarkdownResponse(text) == Strip(CutClosingFence(CutOpeningFence(Strip(text))))

\* what json decoding makes of the reply: "undecodable" when
\* _parse_json_response raises, "not_mapping" for a value that is no object,
\* and for an object whether "medicines" is absent, null or a list
Decoded(reply, parsed) ==
    IF reply.kind = "object"
    THEN IF ~reply.has_key THEN "absent"
         ELSE IF reply.is_null THEN "null" ELSE "list"
    ELSE IF parsed.outcome = "raised" THEN "undecodable"
    ELSE IF parsed.kind = "object" THEN "absent"
    ELSE "not_mapping"

\* one entry of raw_medicines in _normalize_response: the generic_name of the
\* Medicine appended for it, or nothing.  A string is stripped and kept when
\* something is left, a legacy record gives its identity.generic_name, a
\* record that raises inside the try block is skipped, an entry that is
\* neither a string nor a record is passed over
NormalizeEntry(med) ==
    IF med.kind = "str"
    THEN IF Strip(med.text) # <<>> THEN <<Strip(med.text)>> ELSE <<>>
    ELSE IF med.kind = "record" THEN <<med.text>>
    ELSE <<>>

\* the for loop of _normalize_response
RECURSIVE NormalizeEntries(_)
NormalizeEntries(meds) ==
    IF meds = <<>> THEN <<>>
    ELSE NormalizeEntry(Head(meds)) \o NormalizeEntries(Tail(meds))

\* a handler that catches ValueError only: any other exception leaves
\* process_image
ProcessImage_ValueErrorOnly(o) ==
    IF o.kind = "returned"
    THEN [returned |-> TRUE, raised |-> FALSE, success |-> TRUE,
          has_prescription |-> TRUE, prescription |-> o.prescription,
          has_error |-> FALSE, error |-> "none"]
    ELSE IF o.exception = "ValueError"
    THEN [returned |-> TRUE, raised |-> FALSE, success |-> FALSE,
          has_prescription |-> FALSE, prescription |-> [medicines |-> <<>>],
          has_error |-> TRUE, error |-> o.message]
    ELSE [NoProcessingResult EXCEPT !.raised = TRUE]

\* process_image around parse_prescription_from_image: except Exception
\* catches every exception the call raises
ProcessImage(o) ==
    IF o.kind = "returned"
    THEN [returned |-> TRUE, raised |-> FALSE, success |-> TRUE,
          has_prescription |-> TRUE, prescription |-> o.prescription,
          has_error |-> FALSE, error |-> "none"]
    ELSE [returned |-> TRUE, raised |-> FALSE, success |-> FALSE,
          has_prescription |-> FALSE, prescription |-> [medicines |-> <<>>],
          has_error |-> TRUE, error |-> o.message]

\* [name for name in generic names if name]
RECURSIVE NonEmptyTexts(_)
NonEmptyTexts(names) ==
    IF names = <<>> THEN <<>>
    ELSE (IF Head(names) # <<>> THEN <<Head(names)>> ELSE <<>>)
             \o NonEmptyTexts(Tail(names))

\* output_data of OutputService.save_result
SaveResultData(r) ==
    IF r.success /\ r.has_prescription
    THEN [written |-> TRUE, keys |-> {"medicines"},
          medicines |-> NonEmptyTexts(r.prescription.medicines),
          not_in_stock |-> <<>>, error |-> "none"]
    ELSE [written |-> TRUE,
          keys |-> {"success", "error", "processing_time", "timestamp"},
          medicines |-> <<>>, not_in_stock |-> <<>>, error |-> r.error]

\* entries of the "medicines" list of a reply
ItemEntries ==
    { StrItem(<<" ","a","b">>), StrItem(<<"x","y">>),
      RecordItem(NameCd), BadRecordItem, NullItem }

ItemLists == Strs(ItemEntries, MaxItemList)

\* reply texts without a brace or a bracket
ItemAlphabet == {"x", " ", "1"}

ItemTexts ==
    Strs(ItemAlphabet, MaxItemText)
        \cup { <<"n","u","l","l">>, Fence \o <<"x">> \o Fence,
               FenceJson \o <<"1">> \o Fence }

ApiReplies ==
    { ApiReply("raises", <<>>, FALSE, FALSE, <<>>),
      ApiReply("no_text", <<>>, FALSE, FALSE, <<>>),
      ApiReply("object", <<>>, FALSE, FALSE, <<>>),
      ApiReply("object", <<>>, TRUE, TRUE, <<>>) }
        \cup { ApiReply("text", t, FALSE, FALSE, <<>>) : t \in ItemTexts }
        \cup { ApiReply("object", <<>>, TRUE, FALSE, l) : l \in ItemLists }

\* the database files of the item runs: none configured, and a list
ItemDbFiles ==
    { DbFile(FALSE, FALSE, FALSE, FALSE, ".json", "list", <<>>),
      DbFile(TRUE, TRUE, TRUE, TRUE, ".json", "list",
             OneColumn(<<StrItem(NameAb5), StrItem(<<>>), StrItem(NameCd)>>)) }

ItemInit ==
    /\ RestIdle
    /\ NormIdle
    /\ ParseIdle
    /\ pc = "new"
    /\ rapidfuzz_available = FALSE
    /\ phonetics_available = FALSE
    /\ db_file \in ItemDbFiles
    /\ match_threshold = DefaultThreshold
    /\ db_loaded = FALSE
    /\ medicine_db = <<>>
    /\ medicine_db_original = <<>>
    /\ RunIdle
    /\ validate_medicine_names \in BOOLEAN
    /\ api_reply = NoReply
    /\ decoded = "none"
    /\ debug_saves = 0
    /\ parse_outcome = NoParseOutcome
    /\ processing_result = NoProcessingResult
    /\ output_data = NoOutput

\* parse_prescription_from_image up to response_text: the retry loop around
\* generate_content and the extraction of response.text
ModelCall ==
    /\ pc = "ready"
    /\ \E reply \in ApiReplies :
        /\ api_reply' = reply
        /\ IF reply.kind = "raises"
           THEN /\ parse_outcome' = ParseRaised("RuntimeError", "Gemini API error")
                /\ pc' = "failed"
           ELSE IF reply.kind = "no_text"
           THEN /\ parse_outcome' =
                       ParseRaised("ValueError", "Failed to extract response text")
                /\ pc' = "failed"
           ELSE /\ pc' = "responded"
                /\ UNCHANGED parse_outcome
    /\ UNCHANGED <<envVars, validatorVars, lookup, medicines, idx, validated_medicines,
                   not_in_stock, outcomes, result, aiVars, normVars, parseVars,
                   validate_medicine_names, decoded, debug_saves,
                   processing_result, output_data>>
    /\ UNCHANGED restVars

\* the result goes on without _validate_medicine_names having changed it
SkipValidate(meds, next) ==
    /\ pc' = next
    /\ result' = Payload(meds, <<>>)
    /\ UNCHANGED <<lookup, medicines, idx, validated_medicines, not_in_stock,
                   outcomes, aiVars>>

\* result = self._parse_json_response(...) and the call of
\* _validate_medicine_names when the flag is set, d = Decoded(reply, parsed)
ParseAndValidate(d) ==
    /\ decoded' = d
    /\ IF d = "undecodable" THEN SkipValidate(<<>>, "raised")
       ELSE IF ~validate_medicine_names
       THEN SkipValidate(api_reply.medicines, "done")
       ELSE IF d = "not_mapping" THEN SkipValidate(<<>>, "raised")
       ELSE BeginValidate(api_reply.medicines)

ParseResponse ==
    /\ pc = "responded"
    /\ ParseAndValidate(Decoded(api_reply,
                                ParseJsonResponse(CleanMarkdownResponse(api_reply.text))))
    /\ UNCHANGED <<envVars, validatorVars, normVars, parseVars,
                   validate_medicine_names, api_reply, debug_saves, parse_outcome,
                   processing_result, output_data>>
    /\ UNCHANGED restVars

\* return self._normalize_response(result, ...) and its except branch, which
\* saves the raw reply and raises ValueError into the outer handler.
\* result.get raises on a value that is no mapping, the for loop on null.
NormalizeResponse ==
    /\ pc = "done"
    /\ IF decoded \in {"not_mapping", "null"}
       THEN /\ debug_saves' = debug_saves + 1
            /\ pc' = "raised"
            /\ UNCHANGED parse_outcome
       ELSE /\ parse_outcome' = ParseReturned(NormalizeEntries(result.medicines))
            /\ pc' = "normalized"
            /\ UNCHANGED debug_saves
    /\ UNCHANGED <<envVars, validatorVars, lookup, medicines, idx, validated_medicines,
                   not_in_stock, outcomes, result, aiVars, normVars, parseVars,
                   validate_medicine_names, api_reply, decoded,
                   processing_result, output_data>>
    /\ UNCHANGED restVars

\* the outer except branch: the raw reply is saved and ValueError raised
HandleFailure ==
    /\ pc = "raised"
    /\ debug_saves' = debug_saves + 1
    /\ parse_outcome' = ParseRaised("ValueError", "Invalid JSON response from Gemini")
    /\ pc' = "failed"
    /\ UNCHANGED <<envVars, validatorVars, lookup, medicines, idx, validated_medicines,
                   not_in_stock, outcomes, result, aiVars, normVars, parseVars,
                   validate_medicine_names, api_reply, decoded,
                   processing_result, output_data>>
    /\ UNCHANGED restVars

\* process_image builds its ProcessingResult
AgentReturn ==
    /\ pc \in {"normalized", "failed"}
    /\ processing_result' = ProcessImage(parse_outcome)
    /\ pc' = IF ProcessImage(parse_outcome).raised THEN "propagated" ELSE "returned"
    /\ UNCHANGED <<envVars, validatorVars, lookup, medicines, idx, validated_medicines,
                   not_in_stock, outcomes, result, aiVars, normVars, parseVars,
                   validate_medicine_names, api_reply, decoded, debug_saves,
                   parse_outcome, output_data>>
    /\ UNCHANGED restVars

\* OutputService.save_result(result, output_dir, image_name)
SaveResult ==
    /\ pc = "returned"
    /\ output_data' = SaveResultData(processing_result)
    /\ pc' = "saved"
    /\ UNCHANGED <<envVars, validatorVars, lookup, medicines, idx, validated_medicines,
                   not_in_stock, outcomes, result, aiVars, normVars, parseVars,
                   validate_medicine_names, api_reply, decoded, debug_saves,
                   parse_outcome, processing_result>>
    /\ UNCHANGED restVars

ItemNext == Construct \/ ModelCall \/ ParseResponse \/ ValidateOne \/ AiAttempt
                \/ AiNoAttempt \/ Finish \/ NormalizeResponse \/ HandleFailure
                \/ AgentReturn \/ SaveResult

SpecItem == ItemInit /\ [][ItemNext]_vars

(***************************************************************************)
(* Specification SpecShared: worker threads call find_closest_match,       *)
(* validate_medicine and validate_medicines_batch on one validator, their  *)
(* steps interleaved                                                       *)
(***************************************************************************)
\* the threads of the pool
Workers == {"worker-1", "worker-2"}

ThreadIdle == Thread("idle", "none", <<>>, 0, <<>>, 0, <<0, RatZero>>, <<>>)

\* the inventory and the detected name of the worked example
NameParacetamol == <<"P","a","r","a","c","e","t","a","m","o","l"," ","5","0","0","m","g">>
NameAmoxicillin == <<"A","m","o","x","i","c","i","l","l","i","n"," ","2","5","0","m","g">>
NameParacetmol == <<"p","a","r","a","c","e","t","m","o","l">>

ExampleDbFile ==
    DbFile(TRUE, TRUE, TRUE, TRUE, ".json", "list",
           OneColumn(<<StrItem(NameParacetamol), StrItem(NameAmoxicillin)>>))

\* the calls a thread makes: the function and the names passed
ThreadCalls ==
    { [op |-> "find_closest_match", names |-> <<StrItem(<<"a","b">>)>>],
      [op |-> "find_closest_match", names |-> <<StrItem(<<"x","y">>)>>],
      [op |-> "validate_medicine", names |-> <<StrItem(NameAbx)>>],
      [op |-> "validate_medicine", names |-> <<RecordItem(<<"a","b">>)>>],
      [op |-> "validate_medicine", names |-> <<StrItem(NameParacetmol)>>],
      [op |-> "validate_medicines_batch", names |-> <<>>],
      [op |-> "validate_medicines_batch",
       names |-> <<StrItem(<<"x","y">>), StrItem(<<"a","b">>)>>] }

\* the database files of the shared validator
SharedDbFiles ==
    { DbFile(TRUE, FALSE, FALSE, FALSE, ".json", "list", <<>>),
      ExampleDbFile,
      DbFile(TRUE, TRUE, TRUE, TRUE, ".json", "list",
             OneColumn(<<StrItem(NameAb5), StrItem(<<>>), StrItem(NameCd)>>)),
      DbFile(TRUE, TRUE, TRUE, TRUE, ".txt", "lines",
             OneColumn(<<StrItem(NameAbx), StrItem(<<" ">>)>>)) }

SharedInit ==
    /\ NormIdle
    /\ ParseIdle
    /\ ItemIdle
    /\ pc = "new"
    /\ rapidfuzz_available = FALSE
    /\ phonetics_available \in BOOLEAN
    /\ db_file \in SharedDbFiles
    /\ match_threshold \in Thresholds
    /\ db_loaded = FALSE
    /\ medicine_db = <<>>
    /\ medicine_db_original = <<>>
    /\ RunIdle
    /\ threads = [w \in Workers |-> ThreadIdle]
    /\ scoring = ScoreCall(<<>>, <<>>, LibAnswer(0, 0, 0, 0, TRUE, <<>>, <<>>))
    /\ scan = NoScan
    /\ fixed = <<>>
    /\ LateIdle

\* the thread has an outcome for the entry it is at and goes to the next
\* entry, or returns
Advance(t, out) ==
    [t EXCEPT !.results = Append(@, out), !.at = @ + 1,
              !.pc = IF t.at = Len(t.names) THEN "done" ELSE "enter"]

\* what the call gives for its entry once find_closest_match has m
ThreadOutcome(t, m) ==
    IF t.op = "find_closest_match" THEN m
    ELSE OutcomeOfMatch(Validator, t.names[t.at], m)

\* the thread's steps leave everything but its own record alone
OnlyThread(w, t) ==
    /\ threads' = [threads EXCEPT ![w] = t]
    /\ UNCHANGED <<envVars, validatorVars, lookup, runVars, aiVars, normVars,
                   parseVars, itemVars, scoring, scan, fixed, lateVars>>

\* a thread calls one of the three functions
ThreadCall(w) ==
    /\ pc = "ready"
    /\ threads[w].pc = "idle"
    /\ \E c \in ThreadCalls :
           OnlyThread(w, Thread(IF c.names = <<>> THEN "done" ELSE "enter",
                               c.op, c.names, 1, <<>>, 0, <<0, RatZero>>, <<>>))

\* the guards before the search, for query = _preprocess_name(entry):
\* validate_medicine returns "unknown" without a database, and
\* find_closest_match returns (None, 0.0) without entries or for a name
\* that normalises to nothing
Enter(t, query) ==
    IF t.op # "find_closest_match" /\ ~db_loaded
    THEN Advance(t, Outcome(t.names[t.at], "unknown", FALSE, <<>>, RatZero))
    ELSE IF ~db_loaded \/ medicine_db = <<>> \/ query.raised \/ query.text = <<>>
    THEN Advance(t, ThreadOutcome(t, MatchPreprocessed(Validator, query, Available,
                                       LibAnswer(0, 0, 0, 0, TRUE, <<>>, <<>>),
                                       ExtractAnswer("none", 0, 0))))
    ELSE [t EXCEPT !.pc = "scan", !.preprocessed = query.text, !.n = 0,
                   !.best = <<0, RatZero>>]

ThreadEnter(w) ==
    /\ threads[w].pc = "enter"
    /\ OnlyThread(w, Enter(threads[w],
                           IF ~db_loaded \/ medicine_db = <<>>
                           THEN [raised |-> FALSE, text |-> <<>>]
                           ELSE PreprocessItem(threads[w].names[threads[w].at])))

\* one iteration of the for loop over self.medicine_db
ThreadScan(w) ==
    /\ threads[w].pc = "scan"
    /\ threads[w].n < Len(medicine_db)
    /\ \E lib \in LibAnswers :
           OnlyThread(w, [threads[w] EXCEPT
               !.n = @ + 1,
               !.best = KeepBest(@, threads[w].n + 1,
                                 FuzzyMatchScore(threads[w].preprocessed,
                                                 medicine_db[threads[w].n + 1],
                                                 rapidfuzz_available,
                                                 phonetics_available, lib))])

\* a threshold test that also adapts self.match_threshold to the best score
ThreadTest_Adaptive(w) ==
    /\ threads[w].pc = "scan"
    /\ threads[w].n = Len(medicine_db)
    /\ threads' = [threads EXCEPT ![w] =
           Advance(threads[w],
                   ThreadOutcome(threads[w], ThresholdTest(Validator, threads[w].best)))]
    /\ match_threshold' = threads[w].best[2]
    /\ UNCHANGED <<envVars, db_file, db_loaded, medicine_db, medicine_db_original,
                   lookup, runVars, aiVars, normVars, parseVars, itemVars,
                   scoring, scan, fixed, lateVars>>

\* the loop is over: the threshold test and the return
ThreadTest(w) ==
    /\ threads[w].pc = "scan"
    /\ threads[w].n = Len(medicine_db)
    /\ OnlyThread(w, Advance(threads[w],
                             ThreadOutcome(threads[w],
                                           ThresholdTest(Validator, threads[w].best))))

SharedNext ==
    \/ Construct
    \/ \E w \in Workers : ThreadCall(w)
    \/ \E w \in Workers : ThreadEnter(w)
    \/ \E w \in Workers : ThreadScan(w)
    \/ \E w \in Workers : ThreadTest(w)

SpecShared == SharedInit /\ [][SharedNext]_vars

(***************************************************************************)
(* Specification SpecScore: one call of _fuzzy_match_score on a pair of    *)
(* strings                                                                 *)
(***************************************************************************)
ScoreAlphabet == {"a", "b", " "}

\* longer names: shared trigrams, the same tokens in another order
ScoreSamples ==
    { <<"a","b","c","d">>, <<"b","c","d","e">>, <<"a","b"," ","c","d">>,
      <<"c","d"," ","a","b">> }

ScoreNames == Strs(ScoreAlphabet, MaxScoreLen) \cup ScoreSamples

\* the library answers of a scorer call, all ratios at 100 among them
ScoreLibAnswers ==
    IF rapidfuzz_available \/ phonetics_available
    THEN LibProfiles
            \cup {LibAnswer(100, 100, 100, 100, FALSE, <<"A","B","K">>, <<"A","B","K">>)}
    ELSE {LibAnswer(0, 0, 0, 0, TRUE, <<>>, <<>>)}

ScoreInit ==
    /\ NormIdle
    /\ ParseIdle
    /\ ItemIdle
    /\ pc = "idle"
    /\ rapidfuzz_available \in BOOLEAN
    /\ phonetics_available \in BOOLEAN
    /\ db_file = DbFile(FALSE, FALSE, FALSE, FALSE, ".json", "list", <<>>)
    /\ match_threshold = DefaultThreshold
    /\ db_loaded = FALSE
    /\ medicine_db = <<>>
    /\ medicine_db_original = <<>>
    /\ RunIdle
    /\ threads = <<>>
    /\ scoring \in { ScoreCall(a, b, lib) :
                        a \in ScoreNames, b \in ScoreNames, lib \in ScoreLibAnswers }
    /\ scan = NoScan
    /\ fixed = <<>>
    /\ LateIdle

\* the call record once the call has returned r
ReturnedCall(call, r) ==
    [call EXCEPT !.returned = TRUE, !.signals = r.signals, !.score = r.score]

\* the call of _fuzzy_match_score runs and returns
Score ==
    /\ ~scoring.returned
    /\ scoring' = ReturnedCall(scoring,
                               ScoreReturn(scoring.name1, scoring.name2,
                                           rapidfuzz_available, phonetics_available,
                                           scoring.lib))
    /\ UNCHANGED <<normVars, parseVars, pipeVars, itemVars, threads, scan, fixed, lateVars>>

ScoreNext == Score

SpecScore == ScoreInit /\ [][ScoreNext]_vars

(***************************************************************************)
(* Specification SpecScan: _fix_json_issues on one text, one iteration of  *)
(* its loop at a time                                                      *)
(***************************************************************************)
MaxScan == 4

ScanAlphabet == {"{", "}", "[", "]", "\"", "\\", "x"}

\* \"\\" : an escaped quote, then an escaped backslash and a quote
EscapeSample == <<"\\", "\"", "\\", "\\", "\"">>

\* }{{}x : a depth below zero, then a balanced position before the end
NegativeSample == <<"}", "{", "{", "}", "x">>

ScanTexts == Strs(ScanAlphabet, MaxScan) \cup {EscapeSample, NegativeSample}

ScanInit ==
    /\ NormIdle
    /\ ParseIdle
    /\ ItemIdle
    /\ pc = "idle"
    /\ rapidfuzz_available = FALSE
    /\ phonetics_available = FALSE
    /\ db_file = DbFile(FALSE, FALSE, FALSE, FALSE, ".json", "list", <<>>)
    /\ match_threshold = DefaultThreshold
    /\ db_loaded = FALSE
    /\ medicine_db = <<>>
    /\ medicine_db_original = <<>>
    /\ RunIdle
    /\ threads = <<>>
    /\ scoring = ScoreCall(<<>>, <<>>, LibAnswer(0, 0, 0, 0, TRUE, <<>>, <<>>))
    /\ scan \in { [pc |-> "loop", text |-> t, i |-> 0, st |-> ScanStart] :
                     t \in ScanTexts }
    /\ fixed = <<>>
    /\ LateIdle

\* one iteration of  for i, char in enumerate(text)
ScanLoop ==
    /\ scan.pc = "loop"
    /\ scan.i < Len(scan.text)
    /\ scan' = [scan EXCEPT !.i = scan.i + 1,
                            !.st = ScanStep(scan.st, scan.text[scan.i + 1],
                                            scan.i + 1)]
    /\ UNCHANGED <<normVars, parseVars, pipeVars, itemVars, threads, scoring, fixed, lateVars>>

\* the loop is over: the truncation and the return
ScanReturn ==
    /\ scan.pc = "loop"
    /\ scan.i = Len(scan.text)
    /\ fixed' = FixedFrom(scan.text, scan.st.last_valid_pos)
    /\ scan' = [scan EXCEPT !.pc = "returned"]
    /\ UNCHANGED <<normVars, parseVars, pipeVars, itemVars, threads, scoring, lateVars>>

ScanNext == ScanLoop \/ ScanReturn

SpecScan == ScanInit /\ [][ScanNext]_vars

(***************************************************************************)
(* Specification SpecRetry: the calls of model.generate_content for one    *)
(* image: the retry loop of parse_prescription_from_image, then the one of *)
(* _validate_with_ai on the names detected, the inventory being absent     *)
(***************************************************************************)
\* a call of generate_content: the loop that made it, the attempt number,
\* the retries configured and what came back
CallRecord(by, n, retries, reply) ==
    [by |-> by, attempt |-> n, of |-> retries, reply |-> reply]

\* what generate_content does in the image loop: it raises or it returns
ImageReplies == {"raises", "response"}

RetryInit ==
    /\ NormIdle
    /\ ParseIdle
    /\ ItemIdle
    /\ pc = "calling"
    /\ rapidfuzz_available = FALSE
    /\ phonetics_available = FALSE
    /\ db_file = DbFile(FALSE, FALSE, FALSE, FALSE, ".json", "list", <<>>)
    /\ match_threshold = DefaultThreshold
    /\ db_loaded = FALSE
    /\ medicine_db = <<>>
    /\ medicine_db_original = <<>>
    /\ medicines = <<>>
    /\ idx = 0
    /\ validated_medicines = <<>>
    /\ not_in_stock = <<>>
    /\ outcomes = <<>>
    /\ result = Payload(<<>>, <<>>)
    /\ ai_mode = "none"
    /\ ai_batch = <<>>
    /\ attempt = 0
    /\ max_retries \in RetryValues
    /\ ai_calls = <<>>
    /\ ai_return = NoReturn
    /\ lookup = NoLookup
    /\ threads = <<>>
    /\ scoring = ScoreCall(<<>>, <<>>, LibAnswer(0, 0, 0, 0, TRUE, <<>>, <<>>))
    /\ scan = NoScan
    /\ fixed = <<>>
    /\ model_calls = <<>>
    /\ config = NoConfig
    /\ cli = NoCli

\* one iteration of the for loop of parse_prescription_from_image: the call
\* returns and the loop is left, or it raises and the except branch retries
\* or raises the RuntimeError that ends the function
ImageAttempt ==
    /\ pc = "calling"
    /\ attempt <= max_retries
    /\ \E reply \in ImageReplies :
          /\ model_calls' = Append(model_calls,
                                   CallRecord("image", attempt, max_retries, reply))
          /\ IF reply = "response"
             THEN pc' = "ready" /\ UNCHANGED <<attempt, parse_outcome>>
             ELSE IF RetryAgain(attempt, max_retries)
             THEN attempt' = attempt + 1 /\ UNCHANGED <<pc, parse_outcome>>
             ELSE /\ pc' = "failed"
                  /\ parse_outcome' = ParseRaised("RuntimeError", "api_error")
                  /\ UNCHANGED attempt
    /\ UNCHANGED <<envVars, validatorVars, lookup, medicines, idx, validated_medicines,
                   not_in_stock, outcomes, result, ai_mode, ai_batch, max_retries,
                   ai_calls, ai_return, normVars, parseVars>>
    /\ UNCHANGED <<validate_medicine_names, api_reply, decoded, debug_saves,
                   processing_result, output_data>>
    /\ UNCHANGED <<threads, scoring, scan, fixed, config, cli>>

\* range(max_retries + 1) is exhausted with response still None:
\* if not response: raise RuntimeError
ImageLoopEnds ==
    /\ pc = "calling"
    /\ attempt > max_retries
    /\ pc' = "failed"
    /\ parse_outcome' = ParseRaised("RuntimeError", "no_response")
    /\ UNCHANGED <<envVars, validatorVars, lookup, medicines, idx, validated_medicines,
                   not_in_stock, outcomes, result, aiVars, normVars, parseVars>>
    /\ UNCHANGED <<validate_medicine_names, api_reply, decoded, debug_saves,
                   processing_result, output_data>>
    /\ UNCHANGED restVars

\* one iteration of the retry loop of _validate_with_ai, its call recorded
ValidationAttempt ==
    /\ pc = "ai"
    /\ attempt <= max_retries
    /\ \E reply \in AiReplies(ai_batch) :
          /\ AttemptOn(reply)
          /\ model_calls' = Append(model_calls,
                                   CallRecord("validation", attempt, max_retries,
                                              reply.kind))
    /\ UNCHANGED <<ai_mode, ai_batch, max_retries, ai_calls>>
    /\ UNCHANGED <<envVars, validatorVars, lookup, medicines, not_in_stock, outcomes,
                   result, normVars, parseVars, itemVars>>
    /\ UNCHANGED <<threads, scoring, scan, fixed, config, cli>>

RetryNext == ImageAttempt \/ ImageLoopEnds \/ StartValidate \/ ValidationAttempt
                \/ AiNoAttempt \/ Finish

\* one thread runs the function: a step that can be taken is taken
SpecRetry == RetryInit /\ [][RetryNext]_vars /\ WF_vars(RetryNext)

(***************************************************************************)
(* Specification SpecConfig: threads calling Config._ensure_initialized()  *)
(* and Config.get() on the class attributes they share                     *)
(***************************************************************************)
MaxConfigCalls == 2

\* the attributes _initialize_from_config derives, by the line that sets them
DerivedAt(line) ==
    IF line = 54 THEN {"MAX_IMAGE_SIZE_MB", "SUPPORTED_FORMATS"}
    ELSE IF line = 56 THEN {"MAX_WORKERS"}
    ELSE IF line = 60 THEN {"OUTPUT_DIR", "LOG_DIR"}
    ELSE {}

DerivedAttributes == DerivedAt(54) \cup DerivedAt(56) \cup DerivedAt(60)

\* the lines of _initialize_from_config after its guard, in order
InitLines == <<48, 54, 56, 60, 66, 68>>

\* the file behind APP_CONFIG_PATH: one that yaml cannot read, one that
\* initialises, and ones whose content makes a line of
\* _initialize_from_config raise (a top-level list at config.get, a
\* non-numeric max_workers or port at int())
ConfigFiles == {"unreadable", "good", "raises_48", "raises_56", "raises_66"}

RaisesAt(file, line) ==
    \/ file = "raises_48" /\ line = 48
    \/ file = "raises_56" /\ line = 56
    \/ file = "raises_66" /\ line = 66

\* a thread outside Config
Outside(n, last, init, derived) ==
    [pc |-> "out", op |-> "none", line |-> 0, calls |-> n, last |-> last,
     saw_initialized |-> init, saw_derived |-> derived]

ConfigInit ==
    /\ NormIdle
    /\ ParseIdle
    /\ ItemIdle
    /\ PipeIdle
    /\ threads = <<>>
    /\ scoring = ScoreCall(<<>>, <<>>, LibAnswer(0, 0, 0, 0, TRUE, <<>>, <<>>))
    /\ scan = NoScan
    /\ fixed = <<>>
    /\ model_calls = <<>>
    /\ cli = NoCli
    /\ \E f \in ConfigFiles :
          config = [file |-> f, initialized |-> FALSE, app_config |-> "none",
                    derived |-> {},
                    callers |-> [w \in Workers |-> Outside(0, "none", FALSE, {})]]

\* nothing but config changes
OnlyConfig ==
    UNCHANGED <<normVars, parseVars, pipeVars, itemVars, threads, scoring, scan,
                fixed, model_calls, cli>>

\* the thread's call returns normally: what it finds on return
BackFrom(c, w, init, derived) ==
    [c EXCEPT !.initialized = init, !.derived = derived,
              !.callers[w] = Outside(c.callers[w].calls, "returned", init, derived)]

\* the thread's call raises
RaisedFrom(c, w) ==
    [c EXCEPT !.callers[w] = Outside(c.callers[w].calls, "raised", FALSE, {})]

At(c, w, p, line) == [c EXCEPT !.callers[w].pc = p, !.callers[w].line = line]

\* a thread calls Config._ensure_initialized() or Config.get(...)
ConfigCall(w) ==
    /\ config.callers[w].pc = "out"
    /\ config.callers[w].calls < MaxConfigCalls
    /\ \E op \in {"_ensure_initialized", "get"} :
          config' = [config EXCEPT
                        !.callers[w].op = op,
                        !.callers[w].calls = @ + 1,
                        !.callers[w].pc = IF op = "get" THEN "load" ELSE "ensure"]
    /\ OnlyConfig

\* if not cls._initialized: cls.load_app_config()
EnsureTest(w) ==
    /\ config.callers[w].pc = "ensure"
    /\ config' = IF config.initialized
                 THEN BackFrom(config, w, config.initialized, config.derived)
                 ELSE At(config, w, "load", 0)
    /\ OnlyConfig

\* if cls._app_config is not None: return cls._app_config
LoadTest(w) ==
    /\ config.callers[w].pc = "load"
    /\ config' = IF config.app_config # "none"
                 THEN BackFrom(config, w, config.initialized, config.derived)
                 ELSE At(config, w, "read", 0)
    /\ OnlyConfig

\* the try block of load_app_config up to the assignment of _app_config
ReadFile(w) ==
    /\ config.callers[w].pc = "read"
    /\ config' = IF config.file = "unreadable"
                 THEN RaisedFrom(config, w)
                 ELSE [At(config, w, "init", 0) EXCEPT !.app_config = config.file]
    /\ OnlyConfig

\* _initialize_from_config: if cls._initialized: return
InitTest(w) ==
    /\ config.callers[w].pc = "init"
    /\ config' = IF config.initialized
                 THEN BackFrom(config, w, config.initialized, config.derived)
                 ELSE At(config, w, "line", 1)
    /\ OnlyConfig

\* the thread's line of _initialize_from_config runs: it raises, it sets its
\* attributes, or it is the last line and sets _initialized
LineDone(c, w, n) ==
    IF RaisesAt(c.app_config, InitLines[n]) THEN RaisedFrom(c, w)
    ELSE IF n = Len(InitLines)
         THEN BackFrom(c, w, TRUE, c.derived)
    ELSE [At(c, w, "line", n + 1) EXCEPT
              !.derived = c.derived \cup DerivedAt(InitLines[n])]

InitLine(w) ==
    /\ config.callers[w].pc = "line"
    /\ config' = LineDone(config, w, config.callers[w].line)
    /\ OnlyConfig

ConfigNext ==
    \/ \E w \in Workers : ConfigCall(w)
    \/ \E w \in Workers : EnsureTest(w)
    \/ \E w \in Workers : LoadTest(w)
    \/ \E w \in Workers : ReadFile(w)
    \/ \E w \in Workers : InitTest(w)
    \/ \E w \in Workers : InitLine(w)

SpecConfig == ConfigInit /\ [][ConfigNext]_vars

(***************************************************************************)
(* Specification SpecCli: the parallel mode of main: the tasks submitted   *)
(* to the executor end in any order and main collects them as they end     *)
(***************************************************************************)
MaxImages == 3

\* a ProcessingResult for an image: from the task (process_image returned
\* it) or built by main in its except branch
ResultFor(img, from, success) == [image |-> img, from |-> from, success |-> success]

\* a submitted task: running, or ended with what future.result() will give
Task(st, outcome) == [state |-> st, outcome |-> outcome, collected |-> FALSE]

\* how agent.process_image ends in a worker: it returns a successful or a
\* failed ProcessingResult, or an exception leaves it
TaskOutcomes == {"success", "failure", "raises"}

\* what the calls of OutputService in the try block do: they write, or the
\* file system makes one of them raise
SaveOutcomes == {"saved", "raises"}

CliInit ==
    /\ NormIdle
    /\ ParseIdle
    /\ ItemIdle
    /\ PipeIdle
    /\ threads = <<>>
    /\ scoring = ScoreCall(<<>>, <<>>, LibAnswer(0, 0, 0, 0, TRUE, <<>>, <<>>))
    /\ scan = NoScan
    /\ fixed = <<>>
    /\ model_calls = <<>>
    /\ config = NoConfig
    /\ \E n \in 1..MaxImages :
          cli = [pc |-> "collecting",
                 images |-> [i \in 1..n |-> i],
                 tasks |-> [i \in 1..n |-> Task("running", "none")],
                 results |-> <<>>,
                 result_dict |-> [i \in 1..n |-> ResultFor(0, "none", FALSE)],
                 reports |-> <<>>]

OnlyCli ==
    UNCHANGED <<normVars, parseVars, pipeVars, itemVars, threads, scoring, scan,
                fixed, model_calls, config>>

\* a worker's call of agent.process_image ends
TaskEnds(img) ==
    /\ cli.pc = "collecting"
    /\ cli.tasks[img].state = "running"
    /\ \E o \in TaskOutcomes :
          cli' = [cli EXCEPT !.tasks[img] = Task("ended", o)]
    /\ OnlyCli

\* the except branch of the loop: an error result is appended and stored
ErrorResult(c, img) ==
    [c EXCEPT !.results = Append(c.results, ResultFor(img, "main", FALSE)),
              !.result_dict[img] = ResultFor(img, "main", FALSE)]

\* results.append(result); result_dict[image_path] = result
Stored(c, img, r) ==
    [c EXCEPT !.results = Append(c.results, r), !.result_dict[img] = r]

\* the body of  for future in as_completed(future_to_image)  for an ended
\* task: future.result() raises into the except branch, or the result is
\* appended and stored and the saves follow in the same try block
Collected(c, img, save) ==
    IF c.tasks[img].outcome = "raises" THEN ErrorResult(c, img)
    ELSE IF save = "raises"
         THEN ErrorResult(Stored(c, img, ResultFor(img, "task",
                                                  c.tasks[img].outcome = "success")),
                          img)
    ELSE Stored(c, img, ResultFor(img, "task", c.tasks[img].outcome = "success"))

Collect(img) ==
    /\ cli.pc = "collecting"
    /\ cli.tasks[img].state = "ended"
    /\ ~cli.tasks[img].collected
    /\ \E save \in SaveOutcomes :
          cli' = [Collected(cli, img, save) EXCEPT !.tasks[img].collected = TRUE]
    /\ OnlyCli

\* image_results = [(img, result_dict[img]) for img in images]
BuildReports ==
    /\ cli.pc = "collecting"
    /\ \A i \in 1..Len(cli.images) : cli.tasks[i].collected
    /\ cli' = [cli EXCEPT !.pc = "reported",
                          !.reports = [i \in 1..Len(cli.images) |->
                                          <<cli.images[i], cli.result_dict[cli.images[i]]>>]]
    /\ OnlyCli

CliNext ==
    \/ \E img \in 1..MaxImages : img <= Len(cli.images) /\ TaskEnds(img)
    \/ \E img \in 1..MaxImages : img <= Len(cli.images) /\ Collect(img)
    \/ BuildReports

SpecCli == CliInit /\ [][CliNext]_vars

\* a raw text that starts with the complete object {"medicines":["A","B"]}
HasCleanPrefix(text) ==
    Len(text) >= Len(CleanObject) /\ SubSeq(text, 1, Len(CleanObject)) = CleanObject

\* C3: the complete object followed by any trailing prose parses to the
\* payload of the complete object alone.
C3_TrailingProseRecovered ==
    (pPc = "done" /\ HasCleanPrefix(pRaw)) =>
        /\ pRes.outcome = "returned"
        /\ pRes.kind = ParseJsonResponse(CleanObject).kind
        /\ pRes.val = ParseJsonResponse(CleanObject).val

\* C4: whatever the raw text, the parser returns a mapping (a JSON object)
\* or raises the parse failure; it never returns another kind of value.
C4_MappingOrFailure ==
    pPc = "done" => (pRes.outcome = "raised" \/ pRes.kind = "object")

(***************************************************************************)
(* Properties of the validation pipeline (specification Spec)              *)
(***************************************************************************)
\* the names the in-stock outcomes contribute, in order
RECURSIVE MatchedNames(_)
MatchedNames(outs) ==
    IF outs = <<>> THEN <<>>
    ELSE (IF Head(outs).status = "in_stock"
          THEN <<StrItem(Head(outs).matched_name)>> ELSE <<>>)
             \o MatchedNames(Tail(outs))

\* the audit records the not-in-stock outcomes contribute, in order
RECURSIVE AuditRecords(_)
AuditRecords(outs) ==
    IF outs = <<>> THEN <<>>
    ELSE (IF Head(outs).status = "not_in_stock"
          THEN <<[detected |-> Head(outs).detected_name,
                  best_match_score |-> Head(outs).similarity_score]>>
          ELSE <<>>)
             \o AuditRecords(Tail(outs))

\* the number of list positions the loop has completed
Processed == IF pc = "loop" THEN idx - 1 ELSE Len(medicines)

\* the loop of _validate_medicine_names is running or has run to its end
InLoadedRun == db_loaded /\ medicines # <<>> /\ pc \in {"loop", "finish", "done"}

\* C1: with the inventory loaded, every list position the loop has completed
\* contributed exactly one entry to exactly one of the two lists (one
\* validated name when its outcome is in stock, one audit record otherwise),
\* nothing was delegated, and at the end len(validated) + len(audit) =
\* len(detected) in the returned result.
C1_EveryNameAccounted ==
    InLoadedRun =>
        /\ ai_calls = <<>>
        /\ Len(outcomes) = Processed
        /\ \A i \in 1..Processed :
              /\ outcomes[i].detected_name = medicines[i]
              /\ outcomes[i].status \in {"in_stock", "not_in_stock"}
        /\ validated_medicines = MatchedNames(outcomes)
        /\ not_in_stock = AuditRecords(outcomes)
        /\ Len(validated_medicines) + Len(not_in_stock) = Processed
        /\ pc = "done" =>
              /\ result.medicines = validated_medicines
              /\ result.not_in_stock = not_in_stock
              /\ Len(result.medicines) + Len(result.not_in_stock) = Len(medicines)

\* a finished run over two names, one validated and one audited
C1_Witness ==
    /\ InLoadedRun
    /\ pc = "done"
    /\ Len(medicines) = 2
    /\ Len(result.medicines) = 1
    /\ Len(result.not_in_stock) = 1

\* the outcome of a string name looked up in a loaded, non-empty inventory
\* follows the inclusive threshold test on its best score
InclusiveTest(o) ==
    (o.detected_name.kind = "str" /\ o.detected_name.text # <<>>) =>
        /\ o.status = "in_stock" <=> RatGeq(o.similarity_score, match_threshold)
        /\ o.status = "not_in_stock" <=> RatLess(o.similarity_score, match_threshold)

\* C2: for every threshold t, loaded inventory and detected name with best
\* score s, the name is in stock if and only if s >= t and not in stock if
\* and only if s < t.
C2_ThresholdInclusive ==
    (db_loaded /\ medicine_db # <<>>) =>
        /\ \A i \in 1..Len(outcomes) : InclusiveTest(outcomes[i])
        /\ lookup.called =>
              /\ InclusiveTest(lookup.outcome)
              /\ (lookup.item.kind = "str" /\ lookup.item.text # <<>>) =>
                    (lookup.match.found <=>
                         RatGeq(lookup.match.score, match_threshold))

\* an outcome carries a matched name exactly when it is in stock, and the
\* matched name is an entry of medicine_db_original
CanonicalMatch(o) ==
    /\ (o.matched_name # <<>>) <=> (o.status = "in_stock")
    /\ o.valid <=> (o.status = "in_stock")
    /\ o.status = "in_stock" =>
          \E k \in 1..Len(medicine_db_original) :
              medicine_db_original[k] = o.matched_name

\* C6: every outcome of validate_medicine has a matched name if and only if
\* it is in stock, the matched name is an entry of the inventory's original
\* names, and that inventory name is what the loop appends to the validated
\* output.
C6_MatchedNameIsInventoryName ==
    /\ \A i \in 1..Len(outcomes) : CanonicalMatch(outcomes[i])
    /\ lookup.called => CanonicalMatch(lookup.outcome)
    /\ InLoadedRun => validated_medicines = MatchedNames(outcomes)

\* the detected spelling "ab" is validated as the inventory's "Ab 5mg"
C6_Witness ==
    /\ InLoadedRun
    /\ pc = "done"
    /\ \E i \in 1..Len(outcomes) :
          /\ outcomes[i].status = "in_stock"
          /\ outcomes[i].detected_name = StrItem(<<"a","b">>)
          /\ outcomes[i].matched_name = NameAb5
    /\ \E j \in 1..Len(result.medicines) : result.medicines[j] = StrItem(NameAb5)

\* C7: with the index absent and a non-empty detected list, the whole batch
\* is delegated in one call, the call completes, the validated output is
\* exactly the list of names the secondary validator returned, and no audit
\* entry is produced.
C7_AbsentIndexDelegatesBatch ==
    (~db_loaded /\ medicines # <<>>) =>
        /\ ai_calls = <<medicines>>
        /\ not_in_stock = <<>>
        /\ pc # "raised"
        /\ pc \in {"finish", "done"} =>
              /\ ai_return.is_list
              /\ validated_medicines = ai_return.items
        /\ pc = "done" =>
              /\ result.medicines = ai_return.items
              /\ ~result.has_not_in_stock

\* C8: with the index loaded, a lookup that raises does not end the batch:
\* the loop goes on to the remaining names and finishes with every outcome
\* in stock or not in stock.
C8_LookupFailureIsolated ==
    (db_loaded /\ medicines # <<>>) =>
        /\ pc # "raised"
        /\ pc = "done" =>
              \A i \in 1..Len(outcomes) :
                  outcomes[i].status \in {"in_stock", "not_in_stock"}

\* C9: when the secondary validator fails (no attempt gives a decodable
\* reply), _validate_with_ai returns its input list unchanged, for every
\* configured max_retries.
C9_FailureReturnsInput ==
    (ai_return.returned /\ ai_return.via \in {"fallback", "end"}) =>
        /\ ai_return.is_list
        /\ ai_return.items = ai_batch

\* a database file whose load fails: missing, unreadable, or corrupt (it
\* does not decode, or its "medicines" value cannot be iterated)
LoadFails(f) ==
    f.has_path /\ (~f.exists \/ ~f.readable \/ ~f.decodes \/ f.shape = "medicines_null")

\* find_closest_match and validate_medicine answered without raising and
\* without a match
NoMatchReturned(l) ==
    /\ ~l.match.raised
    /\ ~l.match.found
    /\ l.match.name = <<>>
    /\ l.match.score = RatZero
    /\ ~l.outcome.raised
    /\ ~l.outcome.valid
    /\ l.outcome.matched_name = <<>>

\* C10: after a load failure the constructor has not raised, the validator
\* is in the absent state (db_loaded false, no entries), and every later
\* lookup returns no match instead of raising.
C10_LoadFailureDegrades ==
    (pc # "new" /\ LoadFails(db_file)) =>
        /\ pc # "construct_raised"
        /\ ~db_loaded
        /\ medicine_db = <<>>
        /\ medicine_db_original = <<>>
        /\ lookup.called => NoMatchReturned(lookup)

\* a structured entry looked up on a validator built from a corrupt file
C10_Witness ==
    /\ LoadFails(db_file)
    /\ db_file.exists /\ db_file.readable /\ ~db_file.decodes
    /\ lookup.called
    /\ lookup.item.kind = "record"

\* a reply text without a brace or a bracket
OnlyProse(text) == \A i \in 1..Len(text) : text[i] \notin {"{", "}", "[", "]"}

\* process_image has ended for the image
ItemEnded == pc \in {"returned", "propagated", "saved"}

RECURSIVE NamesOfEntries(_)
NamesOfEntries(l) ==
    IF l = <<>> THEN <<>>
    ELSE (IF Head(l).kind = "str" /\ Strip(Head(l).text) # <<>>
          THEN <<Strip(Head(l).text)>>
          ELSE IF Head(l).kind = "record" THEN <<Head(l).text>> ELSE <<>>)
             \o NamesOfEntries(Tail(l))

\* C12: a list that mixes string names, legacy records and malformed entries
\* is processed to the end (validation, then normalisation) whether or not
\* the inventory is loaded; where validation hands the list on as it is,
\* the prescription holds the generic_name of each legacy record and the
\* stripped strings in their original order, and only malformed entries
\* are left out.
C12_MixedListCompletes ==
    (ItemEnded /\ decoded = "list")
        => /\ processing_result.success
           /\ result.medicines = api_reply.medicines
                  => processing_result.prescription.medicines
                         = NamesOfEntries(api_reply.medicines)

\* C13: process_image never lets a failure of the model call, of parsing,
\* of validation or of normalisation through as an exception; the result it
\* returns has success true exactly when the prescription is present and
\* the error absent, and success false exactly when the error is present
\* and the prescription absent.
C13_AlwaysAProcessingResult ==
    /\ pc # "propagated"
    /\ ~processing_result.raised
    /\ processing_result.returned
           => /\ processing_result.success
                    <=> (processing_result.has_prescription
                            /\ ~processing_result.has_error)
              /\ ~processing_result.success
                    <=> (processing_result.has_error
                            /\ ~processing_result.has_prescription)

\* the model call failed on every attempt and the caller holds a failed
\* ProcessingResult
C13_Witness ==
    /\ pc = "returned"
    /\ api_reply.kind = "raises"
    /\ parse_outcome.exception = "RuntimeError"
    /\ ~processing_result.success
    /\ processing_result.has_error

\* C15: the saved output of an image holds a "not_in_stock" list with one
\* {detected, best_match_score} record per name classified NotInStock, in
\* order, whenever there is such a name, and no such key otherwise: the
\* audit records of _validate_medicine_names survive _normalize_response
\* and reach the saved result.
C15_AuditRecordsReachOutput ==
    (pc = "saved" /\ processing_result.success)
        => IF result.has_not_in_stock
           THEN /\ "not_in_stock" \in output_data.keys
                /\ output_data.not_in_stock = result.not_in_stock
           ELSE "not_in_stock" \notin output_data.keys

\* C14: once the validator is constructed, no call of find_closest_match,
\* validate_medicine or validate_medicines_batch, in any interleaving of the
\* threads that share it, changes medicine_db, medicine_db_original,
\* db_loaded or match_threshold; the two lists have equal length and
\* medicine_db[i] is the normalised form of medicine_db_original[i].
C14_LookupsLeaveValidatorAlone ==
    /\ [](pc = "ready"
            => /\ Len(medicine_db) = Len(medicine_db_original)
               /\ \A i \in 1..Len(medicine_db) :
                      medicine_db[i] = PreprocessName(medicine_db_original[i]))
    /\ [][pc = "ready"
            => UNCHANGED <<medicine_db, medicine_db_original, db_loaded,
                           match_threshold>>]_vars

\* one thread has returned outcomes while another is inside the loop of a
\* later call on the same loaded validator
C14_Witness ==
    /\ pc = "ready"
    /\ db_loaded
    /\ threads["worker-1"].pc = "scan"
    /\ threads["worker-1"].n >= 1
    /\ threads["worker-2"].pc = "done"
    /\ Len(threads["worker-2"].results) = 2

\* sum(score * weight) with the base weights in hundredths
RECURSIVE BaseWeightedSum(_)
BaseWeightedSum(sig) ==
    IF sig = <<>> THEN RatZero
    ELSE RatAdd(RatMul(Head(sig)[1], Rat(Head(sig)[2], 1)),
                BaseWeightedSum(Tail(sig)))

\* every score collected lies in [0, 1]
SignalsInRange(sig) ==
    \A k \in 1..Len(sig) : RatGeq(sig[k][1], RatZero) /\ RatGeq(RatOne, sig[k][1])

\* C16: _fuzzy_match_score returns for every pair of strings, and its value
\* lies in [0, 1]; for two non-empty unequal strings at least one signal is
\* computed, the weights of the computed signals are renormalised to sum to
\* 1 (the value is the weighted sum of the scores divided by the sum of the
\* weights) and the value is capped at 1.0, whichever of the optional
\* libraries are available.
C16_ScoreInUnitInterval ==
    scoring.returned
        => /\ RatGeq(scoring.score, RatZero)
           /\ RatGeq(RatOne, scoring.score)
           /\ (scoring.name1 # <<>> /\ scoring.name2 # <<>>
                    /\ scoring.name1 # scoring.name2)
                  => /\ scoring.signals # <<>>
                     /\ TotalWeight(scoring.signals) > 0
                     /\ SignalsInRange(scoring.signals)
                     /\ RatMul(scoring.score, Rat(TotalWeight(scoring.signals), 1))
                            = BaseWeightedSum(scoring.signals)

\* a call with both libraries available that computed all eight signals and
\* returned a value strictly between 0 and 1
C16_Witness ==
    /\ scoring.returned
    /\ rapidfuzz_available /\ phonetics_available
    /\ Len(scoring.signals) = 8
    /\ RatLess(RatZero, scoring.score)
    /\ RatLess(scoring.score, RatOne)

\* C17 as stated: for every pair of normalised inputs a and b with a == b,
\* _fuzzy_match_score(a, b) returns exactly 1.0 without computing any
\* sub-signal.
C17_EqualNamesScoreOne ==
    (scoring.returned /\ scoring.name1 = scoring.name2)
        => scoring.score = RatOne /\ scoring.signals = <<>>

\* C17 amended: for every pair of non-empty inputs a and b with a == b,
\* _fuzzy_match_score(a, b) returns exactly 1.0 without computing any
\* sub-signal (two empty inputs return 0.0).
C17_EqualNonEmptyNamesScoreOne ==
    (scoring.returned /\ scoring.name1 = scoring.name2 /\ scoring.name1 # <<>>)
        => scoring.score = RatOne /\ scoring.signals = <<>>

\* the scorer has returned for two equal names that are not empty
C17_Witness ==
    /\ scoring.returned
    /\ scoring.name1 = <<"a","b"," ","c","d">>
    /\ scoring.name2 = scoring.name1
    /\ scoring.score = RatOne

\* a thread has returned from validate_medicine("paracetmol") on the
\* validator of the example inventory with threshold 0.75
ExampleValidated(w) ==
    /\ pc = "ready"
    /\ db_file = ExampleDbFile
    /\ match_threshold = DefaultThreshold
    /\ threads[w].pc = "done"
    /\ threads[w].op = "validate_medicine"
    /\ threads[w].names = <<StrItem(NameParacetmol)>>

\* C18: with inventory ["Paracetamol 500mg", "Amoxicillin 250mg"] and
\* threshold 0.75 the detected name "paracetmol" is classified InStock with
\* matched original "Paracetamol 500mg" under every library-availability
\* configuration of the scorer.  Stated for the configuration whose score
\* the source alone determines: the sequence-similarity fallback without
\* the phonetic signal.
C18_ParacetmolInStock ==
    \A w \in Workers :
        (ExampleValidated(w) /\ ~rapidfuzz_available /\ ~phonetics_available)
            => /\ threads[w].results[1].status = "in_stock"
               /\ threads[w].results[1].matched_name = NameParacetamol

\* the number of consecutive backslashes that end at position k
RECURSIVE BackslashRun(_, _)
BackslashRun(s, k) ==
    IF k = 0 THEN 0
    ELSE IF s[k] = "\\" THEN 1 + BackslashRun(s, k - 1)
    ELSE 0

\* position k follows an odd run of backslashes
Escaped(s, k) == BackslashRun(s, k - 1) % 2 = 1

\* the quotes that are not escaped, before position k
QuotesBefore(s, k) == {j \in 1..(k - 1) : s[j] = "\"" /\ ~Escaped(s, j)}

InStringAt(s, k) == Cardinality(QuotesBefore(s, k)) % 2 = 1

\* character c stands at position k, outside a string and not escaped
Structural(s, k, c) == s[k] = c /\ ~Escaped(s, k) /\ ~InStringAt(s, k)

DepthAfter(s, k, open, close) ==
    Cardinality({j \in 1..k : Structural(s, j, open)})
        - Cardinality({j \in 1..k : Structural(s, j, close)})

\* a closing brace or bracket at k brings both depths to zero
BalancedAt(s, k) ==
    /\ Structural(s, k, "}") \/ Structural(s, k, "]")
    /\ DepthAfter(s, k, "{", "}") = 0
    /\ DepthAfter(s, k, "[", "]") = 0

BalancedPositions(s, n) == {k \in 1..n : BalancedAt(s, k)}

LastBalanced(B) == IF B = {} THEN 0 ELSE CHOOSE k \in B : \A j \in B : j <= k

PrefixEndingAt(s, last) == IF last = 0 THEN s ELSE SubSeq(s, 1, last)

IsPrefixOf(p, s) == Len(p) <= Len(s) /\ p = SubSeq(s, 1, Len(p))

\* C19: _fix_json_issues returns the prefix of the text that ends,
\* inclusively, at the largest index at which a closing brace or bracket
\* read outside a quoted string brings both depth counters to zero, and the
\* text unchanged when there is no such index; the result is a prefix of
\* the input; the scan always has a next step until it returns, also with
\* a counter below zero.
C19_TruncatesAtLastBalanced ==
    /\ scan.pc = "loop" =>
          /\ ENABLED ScanNext
          /\ scan.st.last_valid_pos
                = LastBalanced(BalancedPositions(scan.text, scan.i))
          /\ scan.st.brace_count = DepthAfter(scan.text, scan.i, "{", "}")
          /\ scan.st.bracket_count = DepthAfter(scan.text, scan.i, "[", "]")
    /\ scan.pc = "returned" =>
          /\ fixed = PrefixEndingAt(scan.text,
                         LastBalanced(BalancedPositions(scan.text, Len(scan.text))))
          /\ IsPrefixOf(fixed, scan.text)
          /\ fixed = FixJsonIssues(scan.text)

\* a scan whose depth went below zero returned a proper prefix
C19_Witness ==
    /\ scan.pc = "returned"
    /\ \E k \in 1..Len(scan.text) : DepthAfter(scan.text, k, "{", "}") < 0
    /\ fixed # scan.text
    /\ Len(fixed) = LastBalanced(BalancedPositions(scan.text, Len(scan.text)))

\* an iteration of the scan loop is being made
ScanIteration == scan.pc = "loop" /\ scan'.i = scan.i + 1

\* C20: in the bracket-repair scan the escape-pending flag set by a
\* backslash is consumed by exactly the next character, which is not
\* interpreted; a quote toggles the in-string flag exactly when no escape is
\* pending; braces and brackets read inside a string change neither a depth
\* counter nor last_balanced_position.
C20_EscapeAndStringFlags ==
    /\ [](scan.pc = "loop" =>
            /\ scan.st.escape_next = Escaped(scan.text, scan.i + 1)
            /\ scan.st.in_string = InStringAt(scan.text, scan.i + 1))
    /\ [][ScanIteration =>
            /\ scan.st.escape_next =>
                  scan'.st = [scan.st EXCEPT !.escape_next = FALSE]
            /\ scan'.st.escape_next
                  <=> (scan.text[scan.i + 1] = "\\" /\ ~scan.st.escape_next)
            /\ (scan'.st.in_string # scan.st.in_string)
                  <=> (scan.text[scan.i + 1] = "\"" /\ ~scan.st.escape_next)
            /\ (scan.st.in_string /\ scan.text[scan.i + 1] \in {"{", "}", "[", "]"})
                  => /\ scan'.st.brace_count = scan.st.brace_count
                     /\ scan'.st.bracket_count = scan.st.bracket_count
                     /\ scan'.st.last_valid_pos = scan.st.last_valid_pos]_vars

\* the escaped quote did not toggle, the quote after two backslashes did
C20_Witness ==
    /\ scan.text = EscapeSample
    /\ scan.i = Len(EscapeSample)
    /\ scan.st.in_string
    /\ ~scan.st.escape_next

\* the name looked up is spelled exactly as an entry of the inventory
SpelledAsEntry(item) ==
    /\ item.kind = "str"
    /\ \E i \in 1..Len(medicine_db_original) : medicine_db_original[i] = item.text

\* C21: a detected name that is character for character the original name
\* of an inventory entry is classified InStock and the matched original
\* name returned is that same entry, for every inventory, inventories with
\* several strengths of one medicine included.  Stated for the inventories
\* searched by the full scan, where the source alone determines the result.
C21_ExactNameMatchesItself ==
    (/\ lookup.called
     /\ db_loaded
     /\ Len(medicine_db) <= RapidfuzzMinSize
     /\ SpelledAsEntry(lookup.item))
        => /\ lookup.outcome.status = "in_stock"
           /\ lookup.outcome.matched_name = lookup.item.text

\* the entries of a list in the order of their first occurrence, each once
RECURSIVE FirstOccurrences(_)
FirstOccurrences(l) ==
    IF l = <<>> THEN <<>>
    ELSE LET front == FirstOccurrences(SubSeq(l, 1, Len(l) - 1))
         IN IF \E i \in 1..(Len(l) - 1) : l[i] = l[Len(l)]
            THEN front ELSE Append(front, l[Len(l)])

\* C22: with the inventory loaded the validated output holds the matched
\* inventory names in the order of the first detected name that matched each
\* of them, and an inventory name matched by several detected names appears
\* once.
C22_FirstOccurrenceOrder ==
    (InLoadedRun /\ pc = "done") =>
        result.medicines = FirstOccurrences(MatchedNames(outcomes))

\* the score of the normalised query against entry i, with no library
ScoreAgainst(query, i) == FuzzyMatchScore(query, medicine_db[i], FALSE, FALSE,
                                          LibAnswer(0, 0, 0, 0, TRUE, <<>>, <<>>))

\* entry i attains the maximum of the scores over all entries
AttainsMaximum(query, i) ==
    \A j \in 1..Len(medicine_db) : RatGeq(ScoreAgainst(query, i), ScoreAgainst(query, j))

\* the lowest index whose entry attains the maximum
LowestMaximum(query) ==
    CHOOSE i \in 1..Len(medicine_db) :
        /\ AttainsMaximum(query, i)
        /\ \A j \in 1..(i - 1) : ~AttainsMaximum(query, j)

\* what the claim says find_closest_match reports for the entry selected
ReportsEntry(m, i, sc) ==
    /\ m.score = sc
    /\ RatGeq(sc, match_threshold) => (m.found /\ m.name = medicine_db_original[i])

\* a direct lookup of a name with a non-empty normalised form went through
\* the full scan of a non-empty inventory, no library imported
FullScanLookup ==
    /\ lookup.called
    /\ db_loaded /\ medicine_db # <<>>
    /\ ~rapidfuzz_available /\ ~phonetics_available
    /\ lookup.item.kind = "str"
    /\ PreprocessName(lookup.item.text) # <<>>

\* C23: on the full-scan path find_closest_match reports the maximum of
\* _fuzzy_match_score(normalised query, entry) over all inventory entries
\* and selects the lowest-index entry attaining it, so that entry's original
\* name is returned when the maximum reaches the threshold.  Stated for the
\* configuration without libraries, where the full scan is always taken.
C23_FullScanKeepsMaximum ==
    FullScanLookup =>
        ReportsEntry(lookup.match,
                     LowestMaximum(PreprocessName(lookup.item.text)),
                     ScoreAgainst(PreprocessName(lookup.item.text),
                                  LowestMaximum(PreprocessName(lookup.item.text))))

\* C24: on the graceful-degradation path of the scorer (rapidfuzz not
\* imported) the base weight of the single sequence-similarity ratio equals
\* the sum of the base weights of the four signals it replaces
\* (0.25 + 0.20 + 0.20 + 0.15).
C24_FallbackWeightIsSumOfFour ==
    (scoring.returned /\ ~rapidfuzz_available /\ scoring.signals # <<>>)
        => scoring.signals[1][2]
              = WeightRatio + WeightPartial + WeightTokenSort + WeightTokenSet

\* a lower-case letter or a digit
LowerAlphanumeric(c) == c \in {LowerLetters[i] : i \in 1..26} \cup DigitChars

\* only lower-case alphanumeric characters and single spaces, none at an end
CleanName(s) ==
    /\ \A i \in 1..Len(s) : LowerAlphanumeric(s[i]) \/ s[i] = " "
    /\ \A i \in 1..(Len(s) - 1) : ~(s[i] = " " /\ s[i + 1] = " ")
    /\ s # <<>> => (s[1] # " " /\ s[Len(s)] # " ")

\* C25: for every input string the output of _preprocess_name contains only
\* lower-case alphanumeric characters and single spaces: every character
\* that is not alphanumeric or whitespace, the underscore included, has been
\* replaced, no two whitespace characters are adjacent and none leads or
\* trails; an empty or whitespace-only input gives the empty string.
C25_OutputIsCleanName ==
    nPc # "idle" /\ nPc # "start" =>
        /\ CleanName(nOut)
        /\ (\A i \in 1..Len(nIn) : IsSpace(nIn[i])) => nOut = <<>>

\* after position k the name is a space, a number and a unit, to its end
DosageTail(s, k) ==
    /\ k + 3 <= Len(s)
    /\ s[k + 1] = " "
    /\ DigitRunEnd(s, k + 2) > k + 2
    /\ \E u \in 1..Len(DosageUnits) :
          LowerStr(SubSeq(s, SpaceRunEnd(s, DigitRunEnd(s, k + 2)), Len(s)))
              = DosageUnits[u]

\* C26: for every unit of {mg, g, ml, l, %, mcg, iu, unit, units} in any
\* letter case and every number n, a standalone dosage token n u is stripped
\* by _preprocess_name wherever it stands, the end of the string included:
\* "X n u" and "X" normalise to the same string.
C26_TrailingDosageStripped ==
    nPc # "idle" /\ nPc # "start" =>
        \A k \in 1..Len(nIn) :
            DosageTail(nIn, k) => nOut = PreprocessName(SubSeq(nIn, 1, k))

\* the inventory file was read without error and gave no usable name
LoadedNothing ==
    /\ pc \notin {"idle", "new"}
    /\ GivesEntries(db_file)
    /\ LoadDatabase(db_file).medicine_db_original = <<>>

\* not in stock, with score 0.0
NotInStockAtZero(o) ==
    o.status = "not_in_stock" /\ o.similarity_score = RatZero /\ ~o.valid

RECURSIVE CallsBy(_, _)
CallsBy(calls, who) ==
    IF calls = <<>> THEN <<>>
    ELSE (IF Head(calls).by = who THEN <<Head(calls)>> ELSE <<>>)
             \o CallsBy(Tail(calls), who)

\* the attempts of a loop are numbered from 0, none beyond max_retries, and
\* only the last call has a reply of the kinds that end the loop
BoundedLoop(calls, ending) ==
    \A i \in 1..Len(calls) :
        /\ calls[i].attempt = i - 1
        /\ calls[i].attempt <= calls[i].of
        /\ calls[i].reply \in ending => i = Len(calls)

\* the RuntimeError after the retries is raised exactly when max_retries + 1
\* calls in a row have failed
TerminalError(calls) ==
    parse_outcome = ParseRaised("RuntimeError", "api_error")
        <=> /\ calls # <<>>
            /\ Len(calls) = calls[1].of + 1
            /\ \A i \in 1..Len(calls) : calls[i].reply = "raises"

\* _validate_with_ai has returned from "return validated_medicines" exactly
\* when its last call has a reply of the kinds that end the loop
ReturnsOn(calls, ending) ==
    /\ (calls # <<>> /\ calls[Len(calls)].reply \in ending)
          => (pc # "ai" /\ ai_return.returned /\ ai_return.via = "reply")
    /\ (ai_return.returned /\ ai_return.via = "reply")
          => (calls # <<>> /\ calls[Len(calls)].reply \in ending)

\* the two loops with the replies that end the second one
RetryLoops(image, validation, ending) ==
    /\ BoundedLoop(image, {"response"})
    /\ TerminalError(image)
    /\ pc \notin {"calling", "failed"} => (image # <<>> /\ image[Len(image)].reply = "response")
    /\ BoundedLoop(validation, ending)
    /\ ReturnsOn(validation, ending)

\* both loops are over
RetryEnded == pc \in {"failed", "done", "raised"}

\* replies that json.loads accepts, and those it decodes to an object
DecodedReplies == {"list", "no_key", "null", "not_object"}
ObjectReplies == {"list", "no_key", "null"}

\* C28 as stated: for every max_retries >= 0 the model is called at most
\* max_retries + 1 times for one image, no call follows the first call that
\* returns a response, the terminal RuntimeError is raised only after
\* max_retries + 1 consecutive failed calls; _validate_with_ai obeys the same
\* bound and returns at the first attempt whose reply decodes; the retry
\* loop always terminates.
C28_ReturnsAtFirstDecodedReply ==
    /\ [] RetryLoops(CallsBy(model_calls, "image"),
                     CallsBy(model_calls, "validation"), DecodedReplies)
    /\ <> RetryEnded

\* C28, amended: _validate_with_ai returns at the first attempt whose reply
\* decodes to a JSON object; a reply that decodes to another JSON value is
\* a failed attempt like a reply that does not decode.
C28_RetryLoopsBoundedAndEnd ==
    /\ [] RetryLoops(CallsBy(model_calls, "image"),
                     CallsBy(model_calls, "validation"), ObjectReplies)
    /\ <> RetryEnded

\* both loops retried: the image call succeeded at its last attempt and the
\* validation returned an object after a failed attempt
C28_Witness ==
    /\ pc = "done"
    /\ Len(CallsBy(model_calls, "image")) = MaxRetries + 1
    /\ Len(CallsBy(model_calls, "validation")) = MaxRetries + 1
    /\ ai_return.via = "reply"

\* C29: whenever a call of Config._ensure_initialized() or Config.get()
\* returns normally, Config._initialized is true and the derived attributes
\* (OUTPUT_DIR, LOG_DIR, MAX_WORKERS, SUPPORTED_FORMATS, MAX_IMAGE_SIZE_MB)
\* are set; also after an earlier initialisation raised part-way, and when
\* several threads make their first call concurrently.
C29_ReturnMeansInitialized ==
    \A w \in DOMAIN config.callers :
        config.callers[w].last = "returned"
            => /\ config.callers[w].saw_initialized
               /\ config.callers[w].saw_derived = DerivedAttributes

\* the results main holds for an image
ResultsOf(img) == {k \in 1..Len(cli.results) : cli.results[k].image = img}

\* C30: in the parallel mode, for every completion order of the worker
\* tasks, each input image yields exactly one ProcessingResult (len(results)
\* equals the number of images), the per-image report list is in input
\* order, and a task that raises gives a failed result for its own image
\* only, the other images keeping the results of their tasks.
C30_OneResultPerImage ==
    cli.pc = "reported" =>
        /\ Len(cli.results) = Len(cli.images)
        /\ \A i \in 1..Len(cli.images) :
              /\ Cardinality(ResultsOf(cli.images[i])) = 1
              /\ cli.reports[i][1] = cli.images[i]
              /\ cli.reports[i][2].image = cli.images[i]
              /\ cli.tasks[i].outcome = "raises" => ~cli.reports[i][2].success
              /\ cli.tasks[i].outcome = "success" => cli.reports[i][2].success
====
